---- MODULE Spec2Model ----
(***************************************************************************)
(* Model of the analyze pipeline of RecursApp: the POST handlers of        *)
(* app/api/analyze/route.ts and the LLM adapters of lib/llm.ts.            *)
(*                                                                         *)
(* Two revisions of the pipeline are modelled, selected by `variant`:      *)
(*   "master"   - route.ts 132-212 with lib/llm.ts 300-695: parse the      *)
(*                document, three fixed agents draft in parallel, a master *)
(*                agent fuses the drafts (callMasterAgent).                *)
(*   "twophase" - route.ts 274-385 with lib/llm.ts of part_006: the        *)
(*                configured agents extract metadata in parallel, then     *)
(*                draft in parallel, the drafts are merged heuristically.  *)
(*                                                                         *)
(* A JavaScript string is abstracted to the record [src, len, blank]: who  *)
(* produced the text, its length in characters, and whether it consists    *)
(* of whitespace only.  Every await on a fetch is a step boundary: a call  *)
(* is "inflight" until the provider answers, and a provider that never     *)
(* answers leaves it "hung".                                               *)
(***************************************************************************)
EXTENDS Integers, Sequences, FiniteSets, TLC

VARIABLES
  variant,      \* which revision of the route serves the request
  pc,           \* position of the POST handler
  req,          \* the request body and server environment read by POST
  parsedText,   \* master: result of parseDocument; twophase: multaText
  image,        \* twophase: TRUE iff imageBase64 is passed to the agents
  agents,       \* the agents of the fan-out (FIXED_AGENTS / enabledAgents)
  metaCalls,    \* twophase phase 1: one extractWithOneAgent promise per agent
  metadata,     \* twophase: the FineMetadata used to build the draft prompts
  draftCalls,   \* one agentPromises entry per agent
  masterCalls,  \* master phase 3: the two provider calls of callMasterAgent
  sent,         \* history: provider requests issued so far
  order,        \* history: agents in the order their draft promise settled
  response,     \* the NextResponse.json payload, or NoResponse
  call          \* a library function called on its own: arguments and result

vars == << variant, pc, req, parsedText, image, agents, metaCalls, metadata,
           draftCalls, masterCalls, sent, order, response, call >>

(***************************************************************************)
(* Bounds and program constants                                            *)
(***************************************************************************)

\* Largest number of entries of agentConfigs in a twophase request.
MaxConfigs == 2

\* Drafts of at most this many characters are noise (d.content.length > 100).
NoiseThreshold == 100

\* parseDocument uses the pdf text layer only when it exceeds this length.
ParseTextMin == 100

\* parseDocument accepts the text-mode reply only when it exceeds this length.
ParseReplyMin == 50

\* extractTextFromFile uses the pdf text layer only when it exceeds this length.
ExtractTextMin == 50

\* export const maxDuration: the platform ends the request after this many seconds.
maxDuration == 120

(***************************************************************************)
(* Strings                                                                 *)
(***************************************************************************)

Str(src, len, blank) == [src |-> src, len |-> len, blank |-> blank]

\* The empty string "".
EmptyStr == Str("", 0, FALSE)

\* JavaScript truthiness of a string: non-empty.
Truthy(s) == s.len > 0

\* A string written with a trailing space: `text` followed by " ".
Padded(text, len) == Str(text \o " ", len + 1, FALSE)

\* The organism name some replies write with a trailing space.
DGT == Str("DGT", 3, FALSE)

\* s.trim(): a whitespace-only string trims to "", a padded one to its text.
Trim(s) ==
  IF s.blank THEN EmptyStr
  ELSE IF s = Padded(DGT.src, DGT.len) THEN DGT
  ELSE s

\* Texts a provider may put in the content field of its reply to `who`.
Contents(who) ==
  { EmptyStr,
    Str(who, 3, TRUE),
    Str(who, NoiseThreshold, FALSE),
    Str(who, NoiseThreshold + 1, FALSE) }

(***************************************************************************)
(* Provider replies                                                        *)
(***************************************************************************)

\* The value null.
Null == [null |-> TRUE]

\* A function of the library called with args; result is null until it
\* returns.
FunctionCall(fn, args) == [fn |-> fn, args |-> args, returned |-> FALSE, result |-> Null]

\* No library function is being called on its own.
NoFunctionCall == FunctionCall("", << >>)

\* What fetch() yields for one request: it rejects (net), or resolves with
\* an HTTP response: res.ok, whether the body is JSON, whether the body has
\* an error field, and choices[0].message.content ("" when it is missing).
Reply(net, ok, json, bodyError, content) ==
  [net |-> net, ok |-> ok, json |-> json, bodyError |-> bodyError, content |-> content]

Replies(who) ==
  { Reply(TRUE, FALSE, FALSE, FALSE, EmptyStr),
    Reply(FALSE, FALSE, TRUE, TRUE, EmptyStr),
    Reply(FALSE, TRUE, FALSE, FALSE, EmptyStr),
    Reply(FALSE, TRUE, TRUE, TRUE, EmptyStr),
    Reply(FALSE, TRUE, TRUE, TRUE, Str(who, NoiseThreshold + 1, FALSE)) }
  \cup { Reply(FALSE, TRUE, TRUE, FALSE, c) : c \in Contents(who) }

\* Outcome of an async adapter function: it returns a string or throws.
Return(content) == [thrown |-> FALSE, content |-> content, error |-> ""]
Throw(msg) == [thrown |-> TRUE, content |-> EmptyStr, error |-> msg]

\* lib/llm.ts callMistral (master revision).
callMistral(r) ==
  IF r.net THEN Throw("fetch failed")
  ELSE IF ~r.ok THEN Throw("Mistral HTTP error")
  ELSE LET content == IF r.json THEN r.content ELSE EmptyStr
       IN IF ~Truthy(content) THEN Throw("Mistral respuesta vacia")
          ELSE Return(content)

\* lib/llm.ts callOpenRouter (master revision).
callOpenRouter(r) ==
  IF r.net THEN Throw("fetch failed")
  ELSE IF ~r.json THEN Throw("OpenRouter respuesta no es JSON valido")
  ELSE IF ~r.ok THEN Throw("OpenRouter HTTP error")
  ELSE IF r.bodyError THEN Throw("OpenRouter error en body")
  ELSE IF ~Truthy(r.content) \/ Trim(r.content) = EmptyStr
       THEN Throw("OpenRouter respuesta vacia")
  ELSE Return(r.content)

\* part_006 callOpenAIRaw: throws on a non-2xx status, else content || "".
\* res.json() rejects when the body is not JSON.
callOpenAIRaw(r) ==
  IF r.net THEN Throw("fetch failed")
  ELSE IF ~r.ok THEN Throw("provider error")
  ELSE IF ~r.json THEN Throw("Unexpected token")
  ELSE Return(r.content)

\* part_006 callGeminiRaw: same control flow on the Gemini wire format.
callGeminiRaw(r) ==
  IF r.net THEN Throw("fetch failed")
  ELSE IF ~r.ok THEN Throw("Gemini error")
  ELSE IF ~r.json THEN Throw("Unexpected token")
  ELSE Return(r.content)

\* An LLMResponse { content, error? }; error "" stands for an absent error.
LLMResponse(content, error) == [content |-> content, error |-> error]

\* lib/llm.ts callAgent (master revision): never throws.
callAgent(config, r) ==
  IF ~config.apiKey THEN LLMResponse(EmptyStr, "Sin API key configurada")
  ELSE LET res == IF config.provider = "mistral" THEN callMistral(r)
                  ELSE callOpenRouter(r)
       IN IF res.thrown THEN LLMResponse(EmptyStr, res.error)
          ELSE LLMResponse(res.content, "")

\* part_006 callAgent (twophase revision): never throws.
callAgent2(config, r) ==
  IF ~config.apiKey THEN LLMResponse(EmptyStr, "Sin API key configurada")
  ELSE LET res == IF config.provider = "gemini" THEN callGeminiRaw(r)
                  ELSE callOpenAIRaw(r)
       IN IF res.thrown THEN LLMResponse(EmptyStr, res.error)
          ELSE LLMResponse(res.content, "")

(***************************************************************************)
(* Phase 1 of the twophase revision: metadata extraction (part_006)        *)
(***************************************************************************)

\* One entry of FineMetadata.legislation: key is l.trim().toLowerCase(),
\* form tells apart the casings of the same key.  key "" is a blank entry.
Leg(key, form) == [key |-> key, form |-> form]

\* interface FineMetadata.
FineMetadata(legislation, organism, organismAddress, fineType, fineAmount, deadline, rawSummary) ==
  [legislation |-> legislation, organism |-> organism,
   organismAddress |-> organismAddress, fineType |-> fineType,
   fineAmount |-> fineAmount, deadline |-> deadline, rawSummary |-> rawSummary]

\* A string field that was never set (JavaScript undefined).
Undefined == Str("<undefined>", 0, FALSE)

EmptyFineMetadata_noOrganism ==
  FineMetadata(<< >>, Undefined, EmptyStr, EmptyStr, EmptyStr, EmptyStr, EmptyStr)

\* The record extractFineMetadata returns when no agent gave a candidate.
EmptyFineMetadata ==
  FineMetadata(<< >>, EmptyStr, EmptyStr, EmptyStr, EmptyStr, EmptyStr, EmptyStr)

\* JSON.parse(jsonMatch[0]) as FineMetadata: the cast checks nothing, so the
\* object keeps whatever the reply held.  legislationType is "array" (of
\* strings) or "undefined" (the key is missing); organismType is "string" or
\* "number".  A field of another type than the interface's holds the empty
\* value of the interface's type in meta.
ParsedJson(meta, legislationType, organismType) ==
  [legislation |-> meta.legislation, organism |-> meta.organism,
   organismAddress |-> meta.organismAddress, fineType |-> meta.fineType,
   fineAmount |-> meta.fineAmount, deadline |-> meta.deadline,
   rawSummary |-> meta.rawSummary,
   legislationType |-> legislationType, organismType |-> organismType]

\* Two objects of the FineMetadata shape.
CandidateDGT ==
  FineMetadata(<< Leg("art. 91.2 lsv", 1) >>, DGT, EmptyStr,
               Str("exceso de velocidad", 19, FALSE), Str("100 euros", 9, FALSE),
               EmptyStr, Str("resumen breve", 13, FALSE))

CandidateMadrid ==
  FineMetadata(<< Leg("art. 91.2 lsv", 2), Leg("art. 18 rgc", 1), Leg("", 1) >>,
               Str("Ayuntamiento de Madrid", 22, FALSE), Str("Calle Mayor 1", 13, FALSE),
               Str("velocidad", 9, FALSE), EmptyStr,
               Str("20 dias", 7, FALSE), Str("resumen mas largo", 17, FALSE))

\* The objects the agents' JSON replies may hold in a request to the route:
\* the two conforming ones and {"organism": "DGT", ...} without the key
\* legislation.
Candidates ==
  { ParsedJson(CandidateDGT, "array", "string"),
    ParsedJson(CandidateMadrid, "array", "string"),
    ParsedJson([CandidateDGT EXCEPT !.legislation = << >>], "undefined", "string") }

\* The objects the replies may hold when extractFineMetadata is studied on
\* its own: also one that cites the same article twice in two casings, one
\* with "organism": "DGT " (trailing space), and one with "organism": 28079.
ExtractCandidates ==
  Candidates \cup
  { ParsedJson(FineMetadata(<< Leg("art. 18 rgc", 2), Leg("art. 18 rgc", 1),
                               Leg("art. 91.2 lsv", 1) >>,
                            DGT, EmptyStr, EmptyStr, EmptyStr, EmptyStr, EmptyStr),
               "array", "string"),
    ParsedJson(FineMetadata(<< >>, Padded(DGT.src, DGT.len),
                            EmptyStr, EmptyStr, EmptyStr, EmptyStr, EmptyStr),
               "array", "string"),
    ParsedJson([CandidateMadrid EXCEPT !.organism = EmptyStr], "array", "number") }

\* A raw extraction reply is a sequence of segments.  A segment is free text,
\* a {...} span that is not JSON, or a JSON object; fence tells whether the
\* segment sits inside a markdown code fence ("json", "plain") or not ("none").
Seg(fence, kind, cand) == [fence |-> fence, kind |-> kind, cand |-> cand]

TextSeg == Seg("none", "text", EmptyFineMetadata)
GarbageSeg == Seg("none", "garbage", EmptyFineMetadata)
ObjSeg(c) == Seg("none", "object", c)
Fenced(fence, seg) == [seg EXCEPT !.fence = fence]

\* Extraction replies of the providers.
RawTexts(cands) ==
  { << >>, << TextSeg >>, << GarbageSeg >>, << TextSeg, GarbageSeg >> }
  \cup { << ObjSeg(c) >> : c \in cands }
  \cup { << ObjSeg(c), TextSeg >> : c \in cands }
  \cup { << Fenced("json", ObjSeg(c)) >> : c \in cands }
  \cup { << ObjSeg(c), GarbageSeg >> : c \in cands }

RepliesHolding(cands) ==
  { Reply(TRUE, FALSE, FALSE, FALSE, << >>),
    Reply(FALSE, FALSE, TRUE, TRUE, << >>),
    Reply(FALSE, TRUE, FALSE, FALSE, << >>) }
  \cup { Reply(FALSE, TRUE, TRUE, FALSE, raw) : raw \in RawTexts(cands) }

MetaReplies == RepliesHolding(Candidates)

ExtractReplies == RepliesHolding(ExtractCandidates)

IsBrace(seg) == seg.kind \in {"garbage", "object"}

\* raw.replace(/```json[\s\S]*?```|```[\s\S]*?```/g, "").trim(): every fenced
\* block is removed together with what it holds.
StripFences(raw) == SelectSeq(raw, LAMBDA seg : seg.fence = "none")

\* clean.match(/\{[\s\S]*\}/) and JSON.parse of the match: the match runs from
\* the first "{" to the last "}", so it parses only when a single JSON object
\* is the one brace span of the cleaned reply.
ParseCandidate(clean) ==
  LET braces == SelectSeq(clean, IsBrace)
  IN IF Len(braces) = 0 THEN Null
     ELSE IF Len(braces) = 1 /\ braces[1].kind = "object" THEN braces[1].cand
     ELSE Null

\* part_006 extractWithOneAgent: the candidate of one agent, or null.
extractWithOneAgent(config, r) ==
  LET res == IF config.provider = "gemini" THEN callGeminiRaw(r)
             ELSE callOpenAIRaw(r)
  IN IF res.thrown THEN Null
     ELSE ParseCandidate(StripFences(res.content))

\* Elements of a sequence.
Range(s) == { s[i] : i \in DOMAIN s }

\* Number of positions of s holding x.
Count(x, s) == Cardinality({ i \in DOMAIN s : s[i] = x })

\* s without the later occurrences of an element already seen: the key order
\* of a JavaScript object filled in the order of s.
RECURSIVE Distinct(_)
Distinct(s) ==
  IF s = << >> THEN << >>
  ELSE LET init == Distinct(SubSeq(s, 1, Len(s) - 1))
       IN IF s[Len(s)] \in Range(init) THEN init ELSE Append(init, s[Len(s)])

RECURSIVE InsertDesc(_, _, _)
InsertDesc(x, s, score) ==
  IF s = << >> THEN << x >>
  ELSE IF score[Head(s)] >= score[x] THEN << Head(s) >> \o InsertDesc(x, Tail(s), score)
  ELSE << x >> \o s

\* Array.prototype.sort((a, b) => score[b] - score[a]): descending and stable.
RECURSIVE SortDesc(_, _)
SortDesc(s, score) ==
  IF s = << >> THEN << >>
  ELSE InsertDesc(s[Len(s)], SortDesc(SubSeq(s, 1, Len(s) - 1), score), score)

RECURSIVE Flatten(_)
Flatten(ss) == IF ss = << >> THEN << >> ELSE Head(ss) \o Flatten(Tail(ss))

\* extractFineMetadata, legislation: entries counted per lowercase key over
\* all candidates, keys ordered by count, shown as first seen.
MergeLegislation(valid) ==
  LET all == SelectSeq(Flatten([i \in DOMAIN valid |-> valid[i].legislation]),
                       LAMBDA l : l.key # "")
      keySeq == [i \in DOMAIN all |-> all[i].key]
      keys == Distinct(keySeq)
      legCount == [k \in Range(keys) |-> Count(k, keySeq)]
      legOriginal == [k \in Range(keys) |->
                        all[CHOOSE i \in DOMAIN all :
                              /\ all[i].key = k
                              /\ \A j \in DOMAIN all : all[j].key = k => i <= j]]
      ordered == SortDesc(keys, legCount)
  IN [i \in DOMAIN ordered |-> legOriginal[ordered[i]]]

\* The least frequent, last seen organism.
MergeOrganism_lastSeen(valid) ==
  LET os == SelectSeq([i \in DOMAIN valid |-> Trim(valid[i].organism)], Truthy)
  IN IF os = << >> THEN EmptyStr ELSE os[Len(os)]

\* extractFineMetadata, organism: the trimmed non-empty organism with the
\* highest count, the first seen among equals.
MergeOrganism(valid) ==
  LET os == SelectSeq([i \in DOMAIN valid |-> Trim(valid[i].organism)], Truthy)
      names == Distinct(os)
      orgCount == [o \in Range(names) |-> Count(o, os)]
      sorted == SortDesc(names, orgCount)
  IN IF sorted = << >> THEN EmptyStr ELSE sorted[1]

\* extractFineMetadata, pickLongest: the longest non-empty value of a field.
pickLongest(valid, field) ==
  LET xs == SelectSeq([i \in DOMAIN valid |-> valid[i][field]], Truthy)
      sorted == SortDesc(xs, [x \in Range(xs) |-> x.len])
  IN IF sorted = << >> THEN EmptyStr ELSE sorted[1]

\* settled.filter(r => r.status === "fulfilled" && r.value !== null): the
\* promises of extractWithOneAgent never reject, so the settled ones are
\* fulfilled; a promise still pending has no value.
ValidCandidates(calls) ==
  LET fulfilled == SelectSeq(calls, LAMBDA c : c.st = "settled" /\ c.value # Null)
  IN [i \in DOMAIN fulfilled |-> fulfilled[i].value]

\* extractFineMetadata 219-235 outside any try: `for (const l of
\* v.legislation)` throws a TypeError when legislation is undefined, and
\* `(v.organism || "").trim()` throws one when organism is a number.
extractFineMetadataThrows(calls) ==
  LET valid == ValidCandidates(calls)
  IN \E i \in DOMAIN valid :
       valid[i].legislationType = "undefined" \/ valid[i].organismType = "number"

\* part_006 extractFineMetadata, after the join, when it returns: the
\* consensus of the candidates.
extractFineMetadata(calls) ==
  LET valid == ValidCandidates(calls)
  IN IF Len(valid) = 0 THEN EmptyFineMetadata
     ELSE FineMetadata(MergeLegislation(valid), MergeOrganism(valid),
                       pickLongest(valid, "organismAddress"),
                       pickLongest(valid, "fineType"),
                       pickLongest(valid, "fineAmount"),
                       pickLongest(valid, "deadline"),
                       pickLongest(valid, "rawSummary"))

(***************************************************************************)
(* Drafts, agent results and the two merge strategies                      *)
(***************************************************************************)

\* lib/llm.ts FIXED_AGENTS (master revision).
FIXED_AGENTS ==
  << [id |-> "agent-mistral", name |-> "Agente Mistral", provider |-> "mistral"],
     [id |-> "agent-openrouter-1", name |-> "Agente Llama", provider |-> "openrouter"],
     [id |-> "agent-openrouter-2", name |-> "Agente DeepSeek", provider |-> "openrouter"] >>

\* One element of agentResults.  The twophase revision has no agentId field.
AgentResult(agentId, agentName, status, content, error) ==
  [agentId |-> agentId, agentName |-> agentName, status |-> status,
   content |-> content, error |-> error]

\* A promise: not created, waiting for the provider, abandoned by a provider
\* that never answers, or settled with a value.
NoCall == [st |-> "none", value |-> Null]
Inflight == [st |-> "inflight", value |-> Null]
Hung == [st |-> "hung", value |-> Null]
Settled(value) == [st |-> "settled", value |-> value]

StatusOf_alwaysDone(result) == "done"

\* status: result.error ? "error" : "done".
StatusOf(result) == IF result.error # "" THEN "error" ELSE "done"

\* route.ts 169-173: the entry of an agent whose provider has no key.
SkippedEntry(agentDef) ==
  AgentResult(agentDef.id, agentDef.name, "skipped", EmptyStr, "Sin API key configurada")

\* route.ts 176-180: the entry built from callAgent's result (master).
DraftEntry(agentDef, result) ==
  AgentResult(agentDef.id, agentDef.name, StatusOf(result), result.content, result.error)

\* route.ts 346-351: the entry built from callAgent's result (twophase).
DraftEntry2(agent, result) ==
  AgentResult("", agent.name, StatusOf(result), result.content, result.error)

AgentResults_byCompletion(calls, done) ==
  [k \in DOMAIN calls |->
     [calls[done[k].agent].value EXCEPT
        !.agentId = calls[k].value.agentId,
        !.agentName = calls[k].value.agentName]]

\* settled.map((r, idx) => ...): Promise.allSettled keeps the order of the
\* promises it was given, and a fulfilled promise yields the entry its own
\* closure built.  No promise rejects: callAgent catches every error.
AgentResults(calls, done) == [k \in DOMAIN calls |-> calls[k].value]

\* Promise.allSettled resolves once no promise is pending.
AllSettled(calls) == \A k \in DOMAIN calls : calls[k].st = "settled"

MetaJoinReady_any(calls) == \E k \in DOMAIN calls : calls[k].st = "settled"

\* extractFineMetadata 201-203: await Promise.allSettled(agents.map(...))
\* resumes once no extraction promise is pending.
MetaJoinReady(calls) == \A k \in DOMAIN calls : calls[k].st = "settled"

\* route.ts 195-197 / 366-368: the drafts handed to the merge step.
SuccessfulDrafts(results) ==
  SelectSeq(results, LAMBDA r : r.status = "done" /\ Truthy(r.content))

\* Every non-empty draft, whatever its length.
ValidDrafts_nonEmpty(drafts) == SelectSeq(drafts, LAMBDA d : Truthy(d.content))

\* drafts.filter(d => d.content && d.content.length > 100).
ValidDrafts(drafts) ==
  SelectSeq(drafts, LAMBDA d : Truthy(d.content) /\ d.content.len > NoiseThreshold)

\* The fixed message of mergeResponses when no draft qualifies.
MergeFailMessage ==
  Str("No se pudo generar el recurso. Verifica la configuracion de los agentes.", 74, FALSE)

\* part_006 mergeResponses, as far as the pipeline observes it: the failure
\* message, the single valid draft, or a document built on the longest draft
\* (the first of the longest in input order).
mergeResponses(responses) ==
  LET valid == ValidDrafts(responses)
      contents == [i \in DOMAIN valid |-> valid[i].content]
      sorted == SortDesc(contents, [c \in Range(contents) |-> c.len])
  IN IF Len(valid) = 0 THEN MergeFailMessage
     ELSE IF Len(valid) = 1 THEN valid[1].content
     ELSE sorted[1]

\* The master agent's three outcomes after a provider call of callMasterAgent:
\* the call threw (caught at 559-563), it gave a usable document, or it gave
\* 100 characters or fewer and control falls through to the next "if".
MasterStep(res) ==
  IF res.thrown THEN "error"
  ELSE IF res.content.len > NoiseThreshold THEN "return"
  ELSE "next"

(***************************************************************************)
(* State machine                                                           *)
(***************************************************************************)

\* The uploaded multaFile: an image, or a pdf whose text layer has textLen
\* characters, or a pdf that pdf-parse cannot read; NoFile when absent.
File(mime, textLen, corrupt) == [mime |-> mime, textLen |-> textLen, corrupt |-> corrupt]
NoFile == File("", 0, FALSE)
MultaFiles ==
  { File("image", 0, FALSE), File("pdf", 0, TRUE), File("pdf", 0, FALSE),
    File("pdf", ExtractTextMin + 1, FALSE), File("pdf", ParseTextMin + 1, FALSE) }

\* Agent ids of the configurations a twophase request may carry.
AgentIds == << "a1", "a2", "a3", "a4" >>

\* The i-th entry of agentConfigs.
AgentConfig(i, enabled, apiKey) ==
  [id |-> AgentIds[i], name |-> AgentIds[i],
   provider |-> IF i % 2 = 1 THEN "gemini" ELSE "openrouter",
   enabled |-> enabled, apiKey |-> apiKey]

ConfigLists ==
  UNION { { [i \in 1..n |-> AgentConfig(i, f[i][1], f[i][2])] :
              f \in [1..n -> BOOLEAN \X BOOLEAN] } : n \in 0..MaxConfigs }

Request(multaFile, apiKeys, agentConfigs) ==
  [multaFile |-> multaFile, apiKeys |-> apiKeys, agentConfigs |-> agentConfigs]
NoRequest == Request(NoFile, [mistral |-> FALSE, openrouter |-> FALSE], << >>)

\* A provider request: the phase it belongs to, the agent (or master model)
\* it is made for, and whether it carries the file as an image.
Sent(phase, to, img) == [phase |-> phase, to |-> to, image |-> img]

\* NextResponse.json(...): status 0 is "no response yet", 504 the platform's
\* answer when it ends the function.
NextJson(status, error, agentResults, doc, docError) ==
  [status |-> status, error |-> error, agentResults |-> agentResults,
   doc |-> doc, docError |-> docError]
NoResponse == NextJson(0, "", << >>, EmptyStr, "")
ErrorResponse(status, error) == NextJson(status, error, << >>, EmptyStr, "")

\* The route before a request arrives, in either revision.
RouteIdle ==
  /\ pc = "idle"
  /\ req = NoRequest
  /\ parsedText = "none"
  /\ image = FALSE
  /\ agents = << >>
  /\ metaCalls = << >>
  /\ metadata = EmptyFineMetadata
  /\ draftCalls = << >>
  /\ masterCalls = [mistral |-> NoCall, openrouter |-> NoCall]
  /\ sent = {}
  /\ order = << >>
  /\ response = NoResponse

\* The variables of the route, which a library function called on its own
\* leaves alone.
routeVars == << variant, pc, req, parsedText, image, agents, metaCalls, metadata,
               draftCalls, masterCalls, sent, order, response >>

Init ==
  /\ variant \in {"master", "twophase"}
  /\ RouteIdle
  /\ call = NoFunctionCall

\* The handler returns NextResponse.json(body, {status}).
Respond(r) ==
  /\ pc' = "responded"
  /\ response' = r

(***************************************************************************)
(* master revision: route.ts 132-212                                       *)
(***************************************************************************)

\* getServerApiKeys()[agentDef.provider], as a boolean "key is set".
KeyOf(apiKeys, provider) == apiKeys[provider]

\* route.ts 167-181: FIXED_AGENTS.map(async ...) runs every closure up to
\* its first await: an agent without key resolves to "skipped" at once, the
\* others have their fetch in flight.
LaunchDrafts1(apiKeys) ==
  /\ agents' = [i \in DOMAIN FIXED_AGENTS |->
                  [id |-> FIXED_AGENTS[i].id, name |-> FIXED_AGENTS[i].name,
                   provider |-> FIXED_AGENTS[i].provider, enabled |-> TRUE,
                   apiKey |-> KeyOf(apiKeys, FIXED_AGENTS[i].provider)]]
  /\ draftCalls' = [i \in DOMAIN FIXED_AGENTS |->
                      IF KeyOf(apiKeys, FIXED_AGENTS[i].provider)
                      THEN Inflight ELSE Settled(SkippedEntry(FIXED_AGENTS[i]))]
  /\ sent' = sent \cup { Sent("draft", FIXED_AGENTS[i].id, FALSE) :
                           i \in { j \in DOMAIN FIXED_AGENTS :
                                     KeyOf(apiKeys, FIXED_AGENTS[j].provider) } }
  /\ order' = SelectSeq([i \in DOMAIN FIXED_AGENTS |-> [agent |-> i, reply |-> Null]],
                        LAMBDA o : ~KeyOf(apiKeys, FIXED_AGENTS[o.agent].provider))
  /\ pc' = "draft"

\* route.ts 134-158 and parseDocument 58-119 up to its first fetch.
POST1_Start ==
  /\ variant = "master" /\ pc = "idle"
  /\ \E file \in MultaFiles \cup {NoFile}, km \in BOOLEAN, ko \in BOOLEAN :
       /\ req' = Request(file, [mistral |-> km, openrouter |-> ko], << >>)
       /\ IF file = NoFile
          THEN /\ Respond(ErrorResponse(400, "No se proporciono el documento de la multa"))
               /\ UNCHANGED sent
          ELSE IF ~ko
          THEN /\ Respond(ErrorResponse(500, "Se necesita OPENROUTER_API_KEY"))
               /\ UNCHANGED sent
          ELSE IF file.mime = "pdf" /\ ~file.corrupt /\ file.textLen > ParseTextMin
          THEN /\ pc' = "parseText"
               /\ sent' = sent \cup {Sent("parse", "openrouter/auto", FALSE)}
               /\ UNCHANGED response
          ELSE /\ pc' = "parseVision"
               /\ sent' = sent \cup {Sent("parse", "openrouter/auto", TRUE)}
               /\ UNCHANGED response
  /\ UNCHANGED << call, variant, parsedText, image, agents, metaCalls, metadata,
                  draftCalls, masterCalls, order >>

\* Replies of openrouter/auto to a parse request.
ParseReplies ==
  { Reply(TRUE, FALSE, FALSE, FALSE, EmptyStr),
    Reply(FALSE, FALSE, TRUE, TRUE, EmptyStr),
    Reply(FALSE, TRUE, FALSE, FALSE, EmptyStr),
    Reply(FALSE, TRUE, TRUE, FALSE, EmptyStr),
    Reply(FALSE, TRUE, TRUE, FALSE, Str("openrouter/auto", ParseReplyMin, FALSE)),
    Reply(FALSE, TRUE, TRUE, FALSE, Str("openrouter/auto", ParseReplyMin + 1, FALSE)) }

\* parseDocument 66-88: the text-mode reply is used when it is a 2xx JSON
\* reply of more than 50 characters; anything else, a thrown error included,
\* falls through to the vision request.
POST1_ParseTextReply ==
  /\ variant = "master" /\ pc = "parseText"
  /\ \E r \in ParseReplies :
       IF ~r.net /\ r.ok /\ r.json /\ r.content.len > ParseReplyMin
       THEN /\ parsedText' = "parsed"
            /\ LaunchDrafts1(req.apiKeys)
       ELSE /\ pc' = "parseVision"
            /\ sent' = sent \cup {Sent("parse", "openrouter/auto", TRUE)}
            /\ UNCHANGED << call, parsedText, agents, draftCalls, order >>
  /\ UNCHANGED << call, variant, req, image, metaCalls, metadata, masterCalls, response >>

\* parseDocument 91-118 and route.ts 150-158: a failed vision request makes
\* the handler answer 500; otherwise the content, or the placeholder when it
\* is empty, is the parsed text and the drafts are launched.
POST1_ParseVisionReply ==
  /\ variant = "master" /\ pc = "parseVision"
  /\ \E r \in ParseReplies :
       IF r.net \/ ~r.ok \/ ~r.json
       THEN /\ Respond(ErrorResponse(500, "Error al leer el documento"))
            /\ UNCHANGED << call, parsedText, agents, draftCalls, sent, order >>
       ELSE /\ parsedText' = IF Truthy(r.content) THEN "parsed" ELSE "placeholder"
            /\ LaunchDrafts1(req.apiKeys)
            /\ UNCHANGED response
  /\ UNCHANGED << call, variant, req, image, metaCalls, metadata, masterCalls >>

\* The provider answers the draft request of agent i: callAgent returns and
\* the closure of route.ts 175-180 builds the entry.
POST1_DraftReply ==
  /\ variant = "master" /\ pc # "killed"
  /\ \E i \in DOMAIN draftCalls :
       /\ draftCalls[i].st = "inflight"
       /\ \E r \in Replies(agents[i].id) :
            /\ draftCalls' = [draftCalls EXCEPT
                                ![i] = Settled(DraftEntry(agents[i], callAgent(agents[i], r)))]
            /\ order' = Append(order, [agent |-> i, reply |-> r])
  /\ UNCHANGED << call, variant, pc, req, parsedText, image, agents, metaCalls, metadata,
                  masterCalls, sent, response >>

\* The answer of callMasterAgent once it returns, and the response of
\* route.ts 201-207.
MasterResponse(content, error) ==
  NextJson(200, "", AgentResults(draftCalls, order), content, error)

\* route.ts 183-199 and callMasterAgent 535-546: the join of the drafts, the
\* filter of the valid drafts and the first provider call of the master agent.
POST1_Join ==
  /\ variant = "master" /\ pc = "draft"
  /\ AllSettled(draftCalls)
  /\ LET validDrafts == ValidDrafts(SuccessfulDrafts(AgentResults(draftCalls, order)))
     IN IF Len(validDrafts) = 0
        THEN /\ Respond(MasterResponse(EmptyStr, "No hay borradores validos para fusionar"))
             /\ UNCHANGED << call, masterCalls, sent >>
        ELSE IF Len(validDrafts) = 1
        THEN /\ Respond(MasterResponse(validDrafts[1].content, ""))
             /\ UNCHANGED << call, masterCalls, sent >>
        ELSE IF req.apiKeys.mistral
        THEN /\ pc' = "master1"
             /\ masterCalls' = [masterCalls EXCEPT !.mistral = Inflight]
             /\ sent' = sent \cup {Sent("master", "mistral-large-latest", FALSE)}
             /\ UNCHANGED response
        ELSE IF req.apiKeys.openrouter
        THEN /\ pc' = "master2"
             /\ masterCalls' = [masterCalls EXCEPT !.openrouter = Inflight]
             /\ sent' = sent \cup {Sent("master", "deepseek/deepseek-chat-v3-0324:free", FALSE)}
             /\ UNCHANGED response
        ELSE /\ Respond(MasterResponse(EmptyStr, "No se pudo generar el recurso definitivo"))
             /\ UNCHANGED << call, masterCalls, sent >>
  /\ UNCHANGED << call, variant, req, parsedText, image, agents, metaCalls, metadata,
                  draftCalls, order >>

\* callMasterAgent 546-548 and 559-563: the primary master answers.
POST1_MasterPrimaryReply ==
  /\ variant = "master" /\ pc = "master1"
  /\ masterCalls.mistral.st = "inflight"
  /\ \E r \in Replies("mistral-large-latest") :
       LET res == callMistral(r)
       IN CASE MasterStep(res) = "error" ->
                 /\ Respond(MasterResponse(EmptyStr, res.error))
                 /\ masterCalls' = [masterCalls EXCEPT !.mistral = Settled(res)]
                 /\ UNCHANGED sent
            [] MasterStep(res) = "return" ->
                 /\ Respond(MasterResponse(res.content, ""))
                 /\ masterCalls' = [masterCalls EXCEPT !.mistral = Settled(res)]
                 /\ UNCHANGED sent
            [] MasterStep(res) = "next" /\ req.apiKeys.openrouter ->
                 /\ pc' = "master2"
                 /\ masterCalls' = [masterCalls EXCEPT !.mistral = Settled(res),
                                                       !.openrouter = Inflight]
                 /\ sent' = sent \cup {Sent("master", "deepseek/deepseek-chat-v3-0324:free", FALSE)}
                 /\ UNCHANGED response
            [] MasterStep(res) = "next" /\ ~req.apiKeys.openrouter ->
                 /\ Respond(MasterResponse(EmptyStr, "No se pudo generar el recurso definitivo"))
                 /\ masterCalls' = [masterCalls EXCEPT !.mistral = Settled(res)]
                 /\ UNCHANGED sent
  /\ UNCHANGED << call, variant, req, parsedText, image, agents, metaCalls, metadata,
                  draftCalls, order >>

\* callMasterAgent 549-558 and 559-563: the secondary master answers.
POST1_MasterSecondaryReply ==
  /\ variant = "master" /\ pc = "master2"
  /\ masterCalls.openrouter.st = "inflight"
  /\ \E r \in Replies("deepseek/deepseek-chat-v3-0324:free") :
       LET res == callOpenRouter(r)
       IN /\ masterCalls' = [masterCalls EXCEPT !.openrouter = Settled(res)]
          /\ CASE MasterStep(res) = "error" ->
                    Respond(MasterResponse(EmptyStr, res.error))
               [] MasterStep(res) = "return" ->
                    Respond(MasterResponse(res.content, ""))
               [] MasterStep(res) = "next" ->
                    Respond(MasterResponse(EmptyStr, "No se pudo generar el recurso definitivo"))
  /\ UNCHANGED << call, variant, req, parsedText, image, agents, metaCalls, metadata,
                  draftCalls, sent, order >>

(***************************************************************************)
(* twophase revision: route.ts 274-385                                     *)
(***************************************************************************)

\* route.ts extractTextFromFile: the text handed to the agents and isImage.
extractTextFromFile(file) ==
  IF file.mime = "image" THEN [text |-> "image placeholder", isImage |-> TRUE]
  ELSE IF file.corrupt THEN [text |-> "unreadable placeholder", isImage |-> FALSE]
  ELSE IF file.textLen > ExtractTextMin THEN [text |-> "text layer", isImage |-> FALSE]
  ELSE [text |-> "scanned placeholder", isImage |-> FALSE]

\* (agentConfigs || []).filter(a => a.enabled && a.apiKey).
EnabledAgents(agentConfigs) ==
  SelectSeq(agentConfigs, LAMBDA a : a.enabled /\ a.apiKey)

\* route.ts 276-323 and extractFineMetadata 201-203: validation, text
\* extraction and the launch of one extraction request per enabled agent.
POST2_Start ==
  /\ variant = "twophase" /\ pc = "idle"
  /\ \E file \in MultaFiles \cup {NoFile}, configs \in ConfigLists :
       LET enabledAgents == EnabledAgents(configs)
           ex == extractTextFromFile(file)
       IN /\ req' = Request(file, [mistral |-> FALSE, openrouter |-> FALSE], configs)
          /\ IF file = NoFile
             THEN /\ Respond(ErrorResponse(400, "No se proporciono el documento de la multa"))
                  /\ UNCHANGED << call, parsedText, image, agents, metaCalls, sent >>
             ELSE IF Len(enabledAgents) = 0
             THEN /\ Respond(ErrorResponse(400, "No hay agentes activos con API key configurada"))
                  /\ UNCHANGED << call, parsedText, image, agents, metaCalls, sent >>
             ELSE /\ parsedText' = ex.text
                  /\ image' = ex.isImage
                  /\ agents' = enabledAgents
                  /\ metaCalls' = [i \in DOMAIN enabledAgents |-> Inflight]
                  /\ sent' = sent \cup { Sent("meta", enabledAgents[i].id, ex.isImage) :
                                           i \in DOMAIN enabledAgents }
                  /\ pc' = "meta"
                  /\ UNCHANGED response
  /\ UNCHANGED << call, variant, metadata, draftCalls, masterCalls, order >>

\* The provider answers the extraction request of agent i and
\* extractWithOneAgent resolves.
MetaReply ==
  /\ pc \in {"meta", "draft"}
  /\ \E i \in DOMAIN metaCalls :
       /\ metaCalls[i].st = "inflight"
       /\ \E r \in MetaReplies :
            metaCalls' = [metaCalls EXCEPT ![i] = Settled(extractWithOneAgent(agents[i], r))]
  /\ UNCHANGED << call, variant, pc, req, parsedText, image, agents, metadata, draftCalls,
                  masterCalls, sent, order, response >>

\* route.ts 316-337: the metadata POST goes on with, the all-empty record of
\* the catch when extractFineMetadata threw.
MetadataAtJoin(calls) ==
  IF extractFineMetadataThrows(calls) THEN EmptyFineMetadata
  ELSE extractFineMetadata(calls)

\* route.ts 316-352: extractFineMetadata's join and consensus, the enriched
\* prompt, and the launch of one draft request per enabled agent.
POST2_Phase2 ==
  /\ variant = "twophase" /\ pc = "meta"
  /\ MetaJoinReady(metaCalls)
  /\ metadata' = MetadataAtJoin(metaCalls)
  /\ draftCalls' = [i \in DOMAIN agents |-> Inflight]
  /\ sent' = sent \cup { Sent("draft", agents[i].id, image) : i \in DOMAIN agents }
  /\ pc' = "draft"
  /\ UNCHANGED << call, variant, req, parsedText, image, agents, metaCalls, masterCalls,
                  order, response >>

\* The provider answers the draft request of agent i: callAgent returns and
\* the closure of route.ts 345-351 builds the entry.
POST2_DraftReply ==
  /\ variant = "twophase" /\ pc = "draft"
  /\ \E i \in DOMAIN draftCalls :
       /\ draftCalls[i].st = "inflight"
       /\ \E r \in Replies(agents[i].id) :
            /\ draftCalls' = [draftCalls EXCEPT
                                ![i] = Settled(DraftEntry2(agents[i], callAgent2(agents[i], r)))]
            /\ order' = Append(order, [agent |-> i, reply |-> r])
  /\ UNCHANGED << call, variant, pc, req, parsedText, image, agents, metaCalls, metadata,
                  masterCalls, sent, response >>

\* route.ts 354-377: the join of the drafts, the heuristic merge and the
\* response.
POST2_Respond ==
  /\ variant = "twophase" /\ pc = "draft"
  /\ AllSettled(draftCalls)
  /\ LET resolvedResults == AgentResults(draftCalls, order)
     IN Respond(NextJson(200, "", resolvedResults,
                         mergeResponses(SuccessfulDrafts(resolvedResults)), ""))
  /\ UNCHANGED << call, variant, req, parsedText, image, agents, metaCalls, metadata,
                  draftCalls, masterCalls, sent, order >>

(***************************************************************************)
(* Environment                                                             *)
(***************************************************************************)

\* A provider accepts a request and never answers it.  No fetch of lib/llm.ts
\* or route.ts passes an AbortSignal or races a timer, so the promise of
\* that call stays pending.
ProviderHangs ==
  /\ pc \in {"meta", "draft", "master1", "master2"}
  /\ \/ \E i \in DOMAIN metaCalls :
          /\ metaCalls[i].st = "inflight"
          /\ metaCalls' = [metaCalls EXCEPT ![i] = Hung]
          /\ UNCHANGED << call, draftCalls, masterCalls >>
     \/ \E i \in DOMAIN draftCalls :
          /\ draftCalls[i].st = "inflight"
          /\ draftCalls' = [draftCalls EXCEPT ![i] = Hung]
          /\ UNCHANGED << call, metaCalls, masterCalls >>
     \/ \E m \in {"mistral", "openrouter"} :
          /\ masterCalls[m].st = "inflight"
          /\ masterCalls' = [masterCalls EXCEPT ![m] = Hung]
          /\ UNCHANGED << call, metaCalls, draftCalls >>
  /\ UNCHANGED << call, variant, pc, req, parsedText, image, agents, metadata, sent,
                  order, response >>

\* export const maxDuration = 120: the platform ends a function that is still
\* running after maxDuration seconds; the client gets the platform's 504 and
\* nothing of what the handler had computed.
PlatformTimeout ==
  /\ pc \notin {"idle", "responded", "killed"}
  /\ pc' = "killed"
  /\ response' = ErrorResponse(504, "FUNCTION_INVOCATION_TIMEOUT")
  /\ UNCHANGED << call, variant, req, parsedText, image, agents, metaCalls, metadata,
                  draftCalls, masterCalls, sent, order >>

Next ==
  \/ POST1_Start
  \/ POST1_ParseTextReply
  \/ POST1_ParseVisionReply
  \/ POST1_DraftReply
  \/ POST1_Join
  \/ POST1_MasterPrimaryReply
  \/ POST1_MasterSecondaryReply
  \/ POST2_Start
  \/ MetaReply
  \/ POST2_Phase2
  \/ POST2_DraftReply
  \/ POST2_Respond
  \/ ProviderHangs
  \/ PlatformTimeout

Spec == Init /\ [][Next]_vars

\* The steps of the handler and the answers of the providers that have not
\* abandoned their request: everything that can happen to a request short of
\* the platform ending it.
Progress ==
  \/ POST1_Start \/ POST1_ParseTextReply \/ POST1_ParseVisionReply
  \/ POST1_DraftReply \/ POST1_Join \/ POST1_MasterPrimaryReply
  \/ POST1_MasterSecondaryReply
  \/ POST2_Start \/ MetaReply \/ POST2_Phase2 \/ POST2_DraftReply \/ POST2_Respond

(***************************************************************************)
(* extractFineMetadata called on its own, with any list of agents          *)
(***************************************************************************)

\* extractFineMetadata(agents, ...) 201-203: one request per agent of the
\* list, whatever the list holds; the empty list launches nothing.
ExtractInit ==
  /\ variant = "twophase"
  /\ pc = "meta"
  /\ req = NoRequest
  /\ parsedText = "text layer"
  /\ image = FALSE
  /\ agents \in { [i \in 1..n |-> AgentConfig(i, TRUE, TRUE)] : n \in 0..MaxConfigs }
  /\ metaCalls = [i \in DOMAIN agents |-> Inflight]
  /\ metadata = EmptyFineMetadata
  /\ draftCalls = << >>
  /\ masterCalls = [mistral |-> NoCall, openrouter |-> NoCall]
  /\ sent = { Sent("meta", agents[i].id, FALSE) : i \in DOMAIN agents }
  /\ order = << >>
  /\ response = NoResponse
  /\ call = NoFunctionCall

\* The provider answers the extraction request of agent i; the reply is kept
\* in `order`.
ExtractReply ==
  /\ pc = "meta"
  /\ \E i \in DOMAIN metaCalls :
       /\ metaCalls[i].st = "inflight"
       /\ \E r \in ExtractReplies :
            /\ metaCalls' = [metaCalls EXCEPT ![i] = Settled(extractWithOneAgent(agents[i], r))]
            /\ order' = Append(order, [agent |-> i, reply |-> r])
  /\ UNCHANGED << call, variant, pc, req, parsedText, image, agents, metadata, draftCalls,
                  masterCalls, sent, response >>

\* A provider never answers its extraction request.
ExtractHangs ==
  /\ pc = "meta"
  /\ \E i \in DOMAIN metaCalls :
       /\ metaCalls[i].st = "inflight"
       /\ metaCalls' = [metaCalls EXCEPT ![i] = Hung]
  /\ UNCHANGED << call, variant, pc, req, parsedText, image, agents, metadata, draftCalls,
                  masterCalls, sent, order, response >>

\* extractFineMetadata 205-254: the join, and the value returned or the
\* TypeError thrown.
ExtractReturn ==
  /\ pc = "meta"
  /\ MetaJoinReady(metaCalls)
  /\ IF extractFineMetadataThrows(metaCalls)
       THEN pc' = "threw" /\ UNCHANGED metadata
       ELSE pc' = "extracted" /\ metadata' = extractFineMetadata(metaCalls)
  /\ UNCHANGED << call, variant, req, parsedText, image, agents, metaCalls, draftCalls,
                  masterCalls, sent, order, response >>

ExtractNext == ExtractReply \/ ExtractHangs \/ ExtractReturn

ExtractSpec == ExtractInit /\ [][ExtractNext]_vars

(***************************************************************************)
(* Draft texts at paragraph level, and the merge functions on their own    *)
(***************************************************************************)

\* Largest number of drafts handed to a merge function called on its own.
MaxDrafts == 3

\* One paragraph of a text (the pieces of content.split(/\n{2,}/)).  words:
\* its first ten words in lower case; len: its trimmed length; keyword: how
\* the petition word occurs in it: "none"; "SUPLICA" and "SÚPLICA", the
\* heading that opens the paragraph, written without and with the accent;
\* "solicita", the verb inside a sentence, `at` characters into the paragraph.
Para(words, len, keyword, at) ==
  [words |-> words, len |-> len, keyword |-> keyword, at |-> at, part |-> "whole"]

\* The pieces of a paragraph cut `at` characters into it by String.slice.
HeadOf(p) == [p EXCEPT !.part = "head", !.len = p.at]
TailOf(p) == [p EXCEPT !.part = "tail", !.len = p.len - p.at]

\* The line "---" that mergeResponses puts before appended paragraphs.
SeparatorPara == Para({}, 3, "---", 0)

RECURSIVE ParasLen(_)
ParasLen(paras) ==
  IF paras = << >> THEN 0
  ELSE Head(paras).len + (IF Len(paras) > 1 THEN 2 ELSE 0) + ParasLen(Tail(paras))

\* A text: its paragraphs joined by blank lines, a newline after them when
\* pad, and then the tokens |||URL_SEDE:...||| of `markers`, of 60 characters
\* each.  A token is "json" (its payload is a JSON object), "badjson" (its
\* payload is in braces but is no JSON) or "nobrace" (its payload is not in
\* braces, as in |||URL_SEDE:https://sede.dgt.gob.es|||).
Text(paras, pad, markers) ==
  [paras |-> paras, pad |-> pad, markers |-> markers,
   len |-> ParasLen(paras) + (IF pad THEN 1 ELSE 0) + 60 * Len(markers)]

\* The draft contents handed to the merge functions.  Among their paragraphs:
\* a petition section headed without and with the accent, the verb "solicita"
\* inside the facts, an introduction that shares seven opening words with
\* another, and paragraphs of 40 and of exactly 100 characters, alone and
\* between longer ones.
DraftTexts ==
  LET Intro == Para(1..10, 120, "none", 0)
      Facts == Para(11..20, 150, "none", 0)
      FactsSolicita == Para(11..20, 150, "solicita", 30)
      Suplica == Para(21..30, 120, "SUPLICA", 0)
      SuplicaAccent == Para(21..30, 120, "SÚPLICA", 0)
      Argument == Para(31..40, 130, "none", 0)
      IntroReworded == Para((1..7) \cup (41..43), 110, "none", 0)
      Remark == Para(51..56, 40, "none", 0)
      Hundred == Para(71..80, NoiseThreshold, "none", 0)
  IN { Text(<< >>, FALSE, << >>),
       Text(<< Remark >>, FALSE, << >>),
       Text(<< Hundred >>, FALSE, << >>),
       Text(<< Intro, Facts, Suplica >>, FALSE, << >>),
       Text(<< Intro, Facts, SuplicaAccent >>, FALSE, << >>),
       Text(<< Intro, FactsSolicita, SuplicaAccent >>, FALSE, << >>),
       Text(<< Intro, Facts >>, FALSE, << >>),
       Text(<< Suplica, Facts, Argument >>, FALSE, << >>),
       Text(<< Intro, Argument >>, FALSE, << >>),
       Text(<< IntroReworded >>, FALSE, << >>),
       Text(<< Intro, Argument >>, TRUE, << >>),
       Text(<< Intro, Argument >>, FALSE, << "json" >>),
       Text(<< Facts, Remark, Argument >>, FALSE, << >>) }

\* String.trim() of a text: the newline after the paragraphs goes when no
\* token follows it.
TrimText(t) == Text(t.paras, IF t.markers = << >> THEN FALSE ELSE t.pad, t.markers)

\* raw.match(/\|\|\|URL_SEDE:(\{.*?\})\|\|\|/s): the position of the first
\* token whose payload is in braces, 0 when there is none.
MatchSidecar(raw) ==
  LET braced == { k \in DOMAIN raw.markers : raw.markers[k] \in {"json", "badjson"} }
  IN IF braced = {} THEN 0 ELSE CHOOSE k \in braced : \A j \in braced : k <= j

\* part_007 extractAndStripUrl.  Without a match the trimmed text comes back
\* as it is.  With one, raw.replace(/\|\|\|URL_SEDE:.*?\|\|\|/s, "") removes
\* the first token of the text, whatever its payload, and the proposal is
\* JSON.parse of the matched payload, none when parsing throws.  urlProposal
\* names the token the proposal was parsed from.
extractAndStripUrl(raw) ==
  LET k == MatchSidecar(raw)
  IN IF k = 0 THEN [content |-> TrimText(raw), urlProposal |-> Null]
     ELSE [content |-> TrimText(Text(raw.paras, raw.pad, Tail(raw.markers))),
           urlProposal |-> IF raw.markers[k] = "json" THEN [token |-> k] ELSE Null]

\* The fixed message of mergeResponses as a text.
MergeFailText == Text(<< Para({61, 62, 63, 64, 65, 66, 67, 68, 69, 70}, 74, "none", 0) >>, FALSE, << >>)

\* hits > 6: more than six of the first ten words of para are among the first
\* ten words of basePara.
SharesOpening(para, basePara) == Cardinality(para.words \cap basePara.words) > 6

\* The duplicate test alone, on paragraphs of any length.
UniqueParas_anyLength(other, base) ==
  SelectSeq(other.paras,
            LAMBDA para : ~\E b \in DOMAIN base.paras : SharesOpening(para, base.paras[b]))

\* mergeResponses 334-350: the paragraphs of `other` longer than 100
\* characters whose opening no paragraph of base shares.
UniqueParas(other, base) ==
  SelectSeq(other.paras,
            LAMBDA para : /\ para.len > NoiseThreshold
                          /\ ~\E b \in DOMAIN base.paras : SharesOpening(para, base.paras[b]))

\* mergeResponses 353: base.search(/SUPLICA|SOLICITA|suplica|solicita/i), as
\* the first paragraph that holds a match, 0 when there is none; the accented
\* heading does not match.
SearchPetition(base) ==
  LET hits == { k \in DOMAIN base.paras : base.paras[k].keyword \in {"SUPLICA", "solicita"} }
  IN IF hits = {} THEN 0 ELSE CHOOSE k \in hits : \A j \in hits : k <= j

\* mergeResponses 354-357: the additions go in at supIdx when supIdx > 0,
\* which cuts the paragraph when the match is inside it; otherwise they go
\* after the base and the separator.
Splice(base, additions) ==
  LET k == SearchPetition(base)
      supIdxPositive == k > 1 \/ (k = 1 /\ base.paras[1].at > 0)
      hit == base.paras[k]
  IN IF ~supIdxPositive
       THEN Text(base.paras \o << SeparatorPara >> \o additions, base.pad, base.markers)
     ELSE IF hit.at = 0
       THEN Text(SubSeq(base.paras, 1, k - 1) \o additions
                   \o SubSeq(base.paras, k, Len(base.paras)), base.pad, base.markers)
     ELSE Text(SubSeq(base.paras, 1, k - 1) \o << HeadOf(hit) >> \o additions
                 \o << TailOf(hit) >> \o SubSeq(base.paras, k + 1, Len(base.paras)),
               base.pad, base.markers)

\* part_006 mergeResponses on texts at paragraph level.
mergeResponsesText(responses) ==
  LET valid == ValidDrafts(responses)
      contents == [i \in DOMAIN valid |-> valid[i].content]
      sorted == SortDesc(contents, [c \in Range(contents) |-> c.len])
      base == sorted[1]
      uniqueAdditions == Flatten([i \in 1..(Len(sorted) - 1) |-> UniqueParas(sorted[i + 1], base)])
  IN IF Len(valid) = 0 THEN MergeFailText
     ELSE IF Len(valid) = 1 THEN valid[1].content
     ELSE IF uniqueAdditions = << >> THEN base
     ELSE Splice(base, uniqueAdditions)

\* The empty string "" as a text.
EmptyText == Text(<< >>, FALSE, << >>)

\* What callMasterAgent has produced when it returns or reaches its first
\* await: an LLMResponse, or the provider whose answer it awaits.
MasterOutcome(content, error, awaits) ==
  [content |-> content, error |-> error, awaits |-> awaits]

\* callMasterAgent from validDrafts.length >= 2 up to its first await
\* (llm.ts 540-558, part_007 222-243): the request goes to Mistral when its
\* key is set, else to OpenRouter when its key is set, else the call fails.
MasterFirstAwait(apiKeys) ==
  IF apiKeys.mistral THEN MasterOutcome(EmptyText, "", "mistral")
  ELSE IF apiKeys.openrouter THEN MasterOutcome(EmptyText, "", "openrouter")
  ELSE MasterOutcome(EmptyText, "No se pudo generar el recurso definitivo", "")

\* lib/llm.ts callMasterAgent 531-548, up to its first await.
callMasterAgent(apiKeys, drafts) ==
  LET validDrafts == ValidDrafts(drafts)
  IN IF Len(validDrafts) = 0
       THEN MasterOutcome(EmptyText, "No hay borradores validos para fusionar", "")
     ELSE IF Len(validDrafts) = 1 THEN MasterOutcome(validDrafts[1].content, "", "")
     ELSE MasterFirstAwait(apiKeys)

\* part_007 callMasterAgent 210-228, up to its first await.
callMasterAgent7(apiKeys, drafts) ==
  LET validDrafts == ValidDrafts(drafts)
  IN IF Len(validDrafts) = 0
       THEN MasterOutcome(EmptyText, "No hay borradores validos para fusionar", "")
     ELSE IF Len(validDrafts) = 1
       THEN MasterOutcome(extractAndStripUrl(validDrafts[1].content).content, "", "")
     ELSE MasterFirstAwait(apiKeys)

\* The lists of drafts handed to a merge function.
DraftLists ==
  UNION { [1..n -> { [agentName |-> "agente", content |-> c] : c \in DraftTexts }]
          : n \in 0..MaxDrafts }

\* The apiKeys argument: whether each key is a non-empty string.
KeyPairs == [mistral : BOOLEAN, openrouter : BOOLEAN]

\* The raw drafts handed to extractAndStripUrl: texts ending in up to two
\* sidecar tokens of each kind.
RawDrafts ==
  LET Intro == Para(1..10, 120, "none", 0)
      Argument == Para(31..40, 130, "none", 0)
      Tokens == {"json", "badjson", "nobrace"}
  IN { Text(ps, pad, ms) :
         ps \in {<< >>, << Intro >>, << Intro, Argument >>}, pad \in BOOLEAN,
         ms \in {<< >>} \cup { << a >> : a \in Tokens }
                 \cup { << a, b >> : a \in Tokens, b \in Tokens } }

MergeInit ==
  /\ variant = "none"
  /\ RouteIdle
  /\ \/ call \in { FunctionCall("mergeResponses", [drafts |-> ds]) : ds \in DraftLists }
     \/ call \in { FunctionCall("extractAndStripUrl", [raw |-> raw]) : raw \in RawDrafts }
     \/ call \in { FunctionCall(fn, [apiKeys |-> ks, drafts |-> ds]) :
                     fn \in {"callMasterAgent", "callMasterAgent7"},
                     ks \in KeyPairs, ds \in DraftLists }

\* mergeResponses(responses) runs and returns.
MergeResponsesReturns ==
  /\ call.fn = "mergeResponses" /\ ~call.returned
  /\ call' = [call EXCEPT !.returned = TRUE, !.result = mergeResponsesText(call.args.drafts)]
  /\ UNCHANGED routeVars

\* lib/llm.ts callMasterAgent(apiKeys, drafts) runs to its return or its
\* first await.
CallMasterAgentRuns ==
  /\ call.fn = "callMasterAgent" /\ ~call.returned
  /\ call' = [call EXCEPT !.returned = TRUE,
                          !.result = callMasterAgent(call.args.apiKeys, call.args.drafts)]
  /\ UNCHANGED routeVars

\* part_007 callMasterAgent(apiKeys, drafts) runs to its return or its first
\* await.
CallMasterAgent7Runs ==
  /\ call.fn = "callMasterAgent7" /\ ~call.returned
  /\ call' = [call EXCEPT !.returned = TRUE,
                          !.result = callMasterAgent7(call.args.apiKeys, call.args.drafts)]
  /\ UNCHANGED routeVars

\* extractAndStripUrl(raw) runs and returns.
ExtractAndStripUrlReturns ==
  /\ call.fn = "extractAndStripUrl" /\ ~call.returned
  /\ call' = [call EXCEPT !.returned = TRUE, !.result = extractAndStripUrl(call.args.raw)]
  /\ UNCHANGED routeVars

MergeNext ==
  \/ MergeResponsesReturns
  \/ CallMasterAgentRuns
  \/ CallMasterAgent7Runs
  \/ ExtractAndStripUrlReturns

MergeSpec == MergeInit /\ [][MergeNext]_vars

(***************************************************************************)
(* The appeal deadline: part_002 calcularPlazo, called on its own          *)
(***************************************************************************)

\* Day 0 of the day count, and instant 0 of the hour count (00:00 UTC).
Epoch == [year |-> 2024, month |-> 1, day |-> 1]

IsLeap(y) == (y % 4 = 0 /\ y % 100 # 0) \/ y % 400 = 0

DaysInMonth(y, m) ==
  IF m = 2 THEN (IF IsLeap(y) THEN 29 ELSE 28)
  ELSE IF m \in {4, 6, 9, 11} THEN 30 ELSE 31

DaysInYear(y) == IF IsLeap(y) THEN 366 ELSE 365

RECURSIVE DaysBeforeYear(_)
DaysBeforeYear(y) ==
  IF y <= Epoch.year THEN 0 ELSE DaysInYear(y - 1) + DaysBeforeYear(y - 1)

RECURSIVE DaysBeforeMonth(_, _)
DaysBeforeMonth(y, m) ==
  IF m <= 1 THEN 0 ELSE DaysInMonth(y, m - 1) + DaysBeforeMonth(y, m - 1)

\* new Date(year, monthIndex, day): the local calendar day it denotes, as a
\* day count.  monthIndex is zero-based and may be 12, day may exceed the
\* month's length: the Date constructor carries the excess over.
NewDate(year, monthIndex, day) ==
  LET y == year + (monthIndex \div 12)
      m == (monthIndex % 12) + 1
  IN DaysBeforeYear(y) + DaysBeforeMonth(y, m) + day - 1

RECURSIVE MonthDayFrom(_, _, _)
MonthDayFrom(n, y, m) ==
  IF n >= DaysInMonth(y, m) THEN MonthDayFrom(n - DaysInMonth(y, m), y, m + 1)
  ELSE [year |-> y, month |-> m, day |-> n + 1]

RECURSIVE YearMonthDayFrom(_, _)
YearMonthDayFrom(n, y) ==
  IF n >= DaysInYear(y) THEN YearMonthDayFrom(n - DaysInYear(y), y + 1)
  ELSE MonthDayFrom(n, y, 1)

\* getFullYear(), getMonth() + 1 and getDate() of a day count.
CalendarDate(n) == YearMonthDayFrom(n, Epoch.year)

\* The zones the server may run in (the TZ of the process).
TimeZones == {"UTC", "Europe/Madrid"}

\* Europe/Madrid is on summer time from 02:00 of the last Sunday of March to
\* 03:00 of the last Sunday of October: whether local midnight of day n is.
SummerTime(n) ==
  \/ NewDate(2024, 2, 31) < n /\ n <= NewDate(2024, 9, 27)
  \/ NewDate(2025, 2, 30) < n /\ n <= NewDate(2025, 9, 26)
  \/ NewDate(2026, 2, 29) < n /\ n <= NewDate(2026, 9, 25)

\* getTime() of local midnight of day n, in hours.
Midnight(tz, n) ==
  IF tz = "UTC" THEN 24 * n
  ELSE 24 * n - (IF SummerTime(n) THEN 2 ELSE 1)

\* The local calendar day of an instant: setHours(0, 0, 0, 0) moves a Date to
\* Midnight of this day.
LocalDay(tz, t) ==
  CHOOSE n \in ((t \div 24) - 1)..((t \div 24) + 1) :
    Midnight(tz, n) <= t /\ t < Midnight(tz, n + 1)

\* toISO: d.toISOString().split("T")[0], the calendar day of the instant in
\* UTC.
toISO(t) == CalendarDate(t \div 24)

\* Math.floor(hours / 24).
RoundDays_floor(hours) == hours \div 24

\* Math.round(hours / 24): the nearest integer, halves upwards.
RoundDays(hours) == (hours + 12) \div 24

\* The line "FECHA DE NOTIFICACIÓN: ..." of the parsed text.  kind is
\* "absent" (no such line), "empty", "No indicado", "other" (a value that is
\* no date) or "date": a calendar date written in `format`.  For an empty
\* value, format and date describe the line that follows it in the text
\* (format "" when the text ends there or the next line holds no date).
FechaLine(kind, format, date) == [kind |-> kind, format |-> format, date |-> date]

\* calcularPlazo 523-525: what /FECHA DE NOTIFICACI[OÓ]N:\s*([^\n]+)/i
\* captures, trimmed.  \s* runs over line ends, so after an empty value the
\* capture is the following line.
RawFecha(fecha) ==
  IF fecha.kind = "empty" /\ fecha.format # ""
  THEN FechaLine("date", fecha.format, fecha.date)
  ELSE fecha

\* The phrases of the parsed text that esAlegaciones looks for; "" when the
\* text has none of them.
AllegationPhrases ==
  {"alegaciones", "inicio del procedimiento", "procedimiento sancionador", "20 dias naturales"}

\* The parsed text of a fine, as far as calcularPlazo reads it.
ParsedText(fecha, phrase) == [fecha |-> fecha, phrase |-> phrase]

\* interface PlazoInfo.  fechaLimite is the local calendar day that
\* formatDate prints.
PlazoInfo(notifISO, limite, limiteISO, dias, tipoRecurso, baseLegal, urgencia) ==
  [fechaNotificacionISO |-> notifISO, fechaLimite |-> limite,
   fechaLimiteISO |-> limiteISO, diasRestantes |-> dias,
   tipoRecurso |-> tipoRecurso, baseLegal |-> baseLegal, urgencia |-> urgencia]

\* Tiers cut one day early.
Urgencia_early(diasRestantes) ==
  IF diasRestantes < 0 THEN "vencido"
  ELSE IF diasRestantes < 3 THEN "urgente"
  ELSE IF diasRestantes < 7 THEN "aviso"
  ELSE "ok"

\* calcularPlazo 581-584.
Urgencia(diasRestantes) ==
  IF diasRestantes < 0 THEN "vencido"
  ELSE IF diasRestantes <= 3 THEN "urgente"
  ELSE IF diasRestantes <= 7 THEN "aviso"
  ELSE "ok"

\* calcularPlazo 555: the regular expression test on the whole text.
esAlegaciones(text) == text.phrase \in AllegationPhrases

\* calcularPlazo 561-571: the due day of a notice received on day fechaBase.
FechaLimite(fechaBase, alegaciones) ==
  LET base == CalendarDate(fechaBase)
  IN IF alegaciones THEN NewDate(base.year, base.month - 1, base.day + 20)
     ELSE NewDate(base.year, (base.month - 1) + 1, base.day)

\* part_002 calcularPlazo(parsedText), run at instant `now` in zone tz.
calcularPlazo(text, now, tz) ==
  IF RawFecha(text.fecha).kind # "date" THEN Null
  ELSE
    LET date == RawFecha(text.fecha).date
        fechaBase == NewDate(date.year, date.month - 1, date.day)
        alegaciones == esAlegaciones(text)
        fechaLimite == FechaLimite(fechaBase, alegaciones)
        hoy == Midnight(tz, LocalDay(tz, now))
        diasRestantes == RoundDays(Midnight(tz, fechaLimite) - hoy)
    IN PlazoInfo(toISO(Midnight(tz, fechaBase)),
                 CalendarDate(fechaLimite),
                 toISO(Midnight(tz, fechaLimite)),
                 diasRestantes,
                 IF alegaciones THEN "Alegaciones al procedimiento sancionador"
                 ELSE "Recurso de reposicion",
                 IF alegaciones THEN "Art. 89.1 TRLTSV (RDLeg. 6/2015)"
                 ELSE "Art. 123.1 Ley 39/2015 (LPACAP)",
                 Urgencia(diasRestantes))

\* The parsed texts handed to calcularPlazo: every kind of date line, the
\* dates in the three formats, an empty value followed by a line with a date
\* ("PLAZO PARA RECURRIR: 15/03/2025"), with each allegation phrase and with
\* none.
ParsedTexts ==
  LET NoticeDates ==
        { [year |-> 2025, month |-> 1, day |-> 10],
          [year |-> 2025, month |-> 1, day |-> 31],
          [year |-> 2024, month |-> 1, day |-> 31],
          [year |-> 2025, month |-> 2, day |-> 28],
          [year |-> 2025, month |-> 3, day |-> 15],
          [year |-> 2025, month |-> 5, day |-> 30],
          [year |-> 2025, month |-> 10, day |-> 10],
          [year |-> 2025, month |-> 12, day |-> 20] }
      NoDate == [year |-> 0, month |-> 0, day |-> 0]
      FechaLines ==
        { FechaLine(k, "", NoDate) : k \in {"absent", "empty", "No indicado", "other"} }
        \cup { FechaLine("date", f, d) :
                 f \in {"DD/MM/YYYY", "D de mes de YYYY", "YYYY-MM-DD"}, d \in NoticeDates }
        \cup { FechaLine("empty", "DD/MM/YYYY", [year |-> 2025, month |-> 3, day |-> 15]) }
  IN { ParsedText(f, p) : f \in FechaLines, p \in AllegationPhrases \cup {""} }

\* The instants at which calcularPlazo runs in zone tz: three hours of the
\* days around the due dates and around the changes of summer time.
RunInstants(tz) ==
  LET RunDays ==
        (NewDate(2025, 0, 28)..NewDate(2025, 2, 2))
        \cup { NewDate(2025, 2, 29), NewDate(2025, 2, 30), NewDate(2025, 3, 1),
               NewDate(2025, 9, 25), NewDate(2025, 9, 26), NewDate(2025, 9, 27) }
  IN { Midnight(tz, day) + hour : day \in RunDays, hour \in {0, 12, 22} }

PlazoInit ==
  /\ variant = "none"
  /\ RouteIdle
  /\ \E tz \in TimeZones :
       call \in { FunctionCall("calcularPlazo", [parsedText |-> text, tz |-> tz, now |-> now]) :
                   text \in ParsedTexts, now \in RunInstants(tz) }

\* calcularPlazo(parsedText) runs and returns.
CalcularPlazoReturns ==
  /\ call.fn = "calcularPlazo" /\ ~call.returned
  /\ call' = [call EXCEPT !.returned = TRUE,
                          !.result = calcularPlazo(call.args.parsedText, call.args.now,
                                                   call.args.tz)]
  /\ UNCHANGED routeVars

PlazoNext == CalcularPlazoReturns

PlazoSpec == PlazoInit /\ [][PlazoNext]_vars

(***************************************************************************)
(* The OpenRouter free-model pool: lib/llm.ts callOpenRouterWithFallback   *)
(* and the callAgent that uses it, called on their own                     *)
(***************************************************************************)

\* const FREE_MODELS_POOL.
FREE_MODELS_POOL ==
  << "mistralai/mistral-small-3.1-24b-instruct:free",
     "deepseek/deepseek-r1:free",
     "google/gemma-3-27b-it:free",
     "meta-llama/llama-3.3-70b-instruct:free",
     "deepseek/deepseek-r1-distill-llama-70b:free",
     "google/gemma-3-12b-it:free",
     "nvidia/llama-3.1-nemotron-nano-8b-v1:free" >>

\* content.length > 50: the shortest content the pool accepts is one longer.
PoolContentMin == 50

\* What fetch() yields for one request to a model of the pool: it rejects
\* (net), or resolves with an HTTP status, a body that is JSON or not, whose
\* text holds the digits "404" or "429" or not (mentions), and
\* choices[0].message.content.
PoolReplies ==
  LET PoolReply(net, status, mentions, json, content) ==
        [net |-> net, status |-> status, mentions |-> mentions, json |-> json,
         content |-> content]
  IN { PoolReply(TRUE, 0, FALSE, FALSE, EmptyStr),
       PoolReply(FALSE, 404, FALSE, TRUE, EmptyStr),
       PoolReply(FALSE, 429, TRUE, TRUE, EmptyStr),
       PoolReply(FALSE, 500, FALSE, TRUE, EmptyStr),
       PoolReply(FALSE, 502, TRUE, TRUE, EmptyStr),
       PoolReply(FALSE, 200, FALSE, FALSE, EmptyStr),
       PoolReply(FALSE, 200, FALSE, TRUE, Str("draft", PoolContentMin, FALSE)),
       PoolReply(FALSE, 200, FALSE, TRUE, Str("draft", PoolContentMin + 1, FALSE)) }

\* How one turn of the loop over the models ends: it continues with the next
\* model, returns { content, modelUsed }, or throws.
PoolOutcome(kind, content, error, modelUsed) ==
  [kind |-> kind, content |-> content, error |-> error, modelUsed |-> modelUsed]

\* callOpenRouterWithFallback 1114-1148: the body of the loop for `model`
\* when fetch yields r.  An error thrown inside the try block is caught, and
\* the loop continues when its message includes "404" or "429": the message
\* of a non-2xx status holds the first 200 characters of the body.
TryModel(model, r) ==
  IF r.net THEN PoolOutcome("throw", EmptyStr, "fetch failed", "")
  ELSE IF r.status \in {404, 429} THEN PoolOutcome("continue", EmptyStr, "", "")
  ELSE IF r.status # 200
    THEN IF r.mentions THEN PoolOutcome("continue", EmptyStr, "", "")
         ELSE PoolOutcome("throw", EmptyStr, "OpenRouter HTTP error", "")
  ELSE IF ~r.json THEN PoolOutcome("throw", EmptyStr, "Unexpected token", "")
  ELSE IF r.content.len > PoolContentMin THEN PoolOutcome("return", r.content, "", model)
  ELSE PoolOutcome("continue", EmptyStr, "", "")

\* callOpenRouterWithFallback 1151: the error after the last model.
PoolExhausted ==
  PoolOutcome("throw", EmptyStr, "Todos los modelos :free estan temporalmente no disponibles", "")

\* lib/llm.ts callMistral 1082-1100 (pool revision): content || "".
callMistralPool(r) ==
  IF r.net THEN PoolOutcome("throw", EmptyStr, "fetch failed", "")
  ELSE IF r.status # 200 THEN PoolOutcome("throw", EmptyStr, "Mistral HTTP error", "")
  ELSE IF ~r.json THEN PoolOutcome("throw", EmptyStr, "Unexpected token", "")
  ELSE PoolOutcome("return", r.content, "", "")

\* callAgent 1171: agent-openrouter-2 starts at the second model.
StartIndex(c) ==
  IF c.fn = "callOpenRouterWithFallback" THEN c.args.startIndex
  ELSE IF c.args.config.id = "agent-openrouter-2" THEN 1 ELSE 0

\* The call is inside callOpenRouterWithFallback.
UsesPool(c) ==
  \/ c.fn = "callOpenRouterWithFallback"
  \/ c.fn = "callAgent" /\ c.args.config.apiKey /\ c.args.config.provider # "mistral"

\* What the function called returns for the outcome of its provider code:
\* callAgent 1164-1177 catches every error, callOpenRouterWithFallback lets
\* it through.
PoolResult(c, outcome) ==
  IF c.fn = "callOpenRouterWithFallback" THEN outcome
  ELSE IF outcome.kind = "throw" THEN LLMResponse(EmptyStr, outcome.error)
  ELSE LLMResponse(outcome.content, "")

\* A call of the pool revision: callAgent with the AgentConfig of one of the
\* three fixed agents, with and without key, or callOpenRouterWithFallback
\* from the first or the second model.  requests lists the HTTP requests the
\* call has sent so far, each with the model asked and the reply received.
PoolInit ==
  LET PoolCall(fn, args) ==
        [fn |-> fn, args |-> args, returned |-> FALSE, result |-> Null, requests |-> << >>]
      PoolConfigs ==
        { [id |-> FIXED_AGENTS[i].id, provider |-> FIXED_AGENTS[i].provider, apiKey |-> k] :
            i \in DOMAIN FIXED_AGENTS, k \in BOOLEAN }
  IN /\ variant = "none"
     /\ RouteIdle
     /\ \/ call \in { PoolCall("callAgent", [config |-> c]) : c \in PoolConfigs }
        \/ call \in { PoolCall("callOpenRouterWithFallback", [startIndex |-> s]) : s \in {0, 1} }

\* callAgent 1163: no key, no request.
AgentWithoutKey ==
  /\ call.fn = "callAgent" /\ ~call.returned /\ ~call.args.config.apiKey
  /\ call' = [call EXCEPT !.returned = TRUE,
                          !.result = LLMResponse(EmptyStr, "Sin API key configurada")]
  /\ UNCHANGED routeVars

\* callAgent 1165-1167: the Mistral agent sends its request and returns.
AgentAsksMistral ==
  /\ call.fn = "callAgent" /\ ~call.returned
  /\ call.args.config.apiKey /\ call.args.config.provider = "mistral"
  /\ \E r \in PoolReplies :
       call' = [call EXCEPT !.returned = TRUE,
                            !.requests = << [model |-> "mistral-small-latest", reply |-> r] >>,
                            !.result = PoolResult(call, callMistralPool(r))]
  /\ UNCHANGED routeVars

\* callOpenRouterWithFallback 1112-1151: one turn of the loop.  The request
\* goes to the model after those already asked; the function runs on to its
\* return, to its throw, or to the fetch of the next model.
PoolFetch ==
  /\ UsesPool(call) /\ ~call.returned
  /\ StartIndex(call) + Len(call.requests) < Len(FREE_MODELS_POOL)
  /\ \E r \in PoolReplies :
       LET model == FREE_MODELS_POOL[StartIndex(call) + Len(call.requests) + 1]
           outcome == TryModel(model, r)
           requests == Append(call.requests, [model |-> model, reply |-> r])
           last == StartIndex(call) + Len(requests) = Len(FREE_MODELS_POOL)
       IN call' = IF outcome.kind = "continue" /\ ~last
                  THEN [call EXCEPT !.requests = requests]
                  ELSE [call EXCEPT !.requests = requests, !.returned = TRUE,
                                    !.result = PoolResult(call, IF outcome.kind = "continue"
                                                                THEN PoolExhausted
                                                                ELSE outcome)]
  /\ UNCHANGED routeVars

PoolNext == AgentWithoutKey \/ AgentAsksMistral \/ PoolFetch

PoolSpec == PoolInit /\ [][PoolNext]_vars

(***************************************************************************)
(* Properties                                                              *)
(***************************************************************************)

\* The handler has answered with the pipeline's payload.
Answered == pc = "responded" /\ response.status = 200

\* What callAgent of the serving revision makes of reply r to agent i.
AdapterResult(i, r) ==
  IF variant = "master" THEN callAgent(agents[i], r) ELSE callAgent2(agents[i], r)

\* The entries and completion records of agent i.
EntriesOf(i) == { k \in DOMAIN response.agentResults :
                    response.agentResults[k].agentName = agents[i].name }
RepliesTo(i) == { k \in DOMAIN order : order[k].agent = i /\ order[k].reply # Null }

\* C1: in a fan-out, when the provider call of agent a fails and that of
\* agent b succeeds, the results hold exactly one entry for a, with status
\* error, and exactly one for b, with status done and the content b's
\* provider returned.
C1_FailureIsolated ==
  Answered =>
    \A a \in DOMAIN agents, b \in DOMAIN agents :
      \A ka \in RepliesTo(a), kb \in RepliesTo(b) :
        ( /\ AdapterResult(a, order[ka].reply).error # ""
          /\ AdapterResult(b, order[kb].reply).error = "" )
        => /\ Cardinality(EntriesOf(a)) = 1
           /\ Cardinality(EntriesOf(b)) = 1
           /\ \A k \in EntriesOf(a) : response.agentResults[k].status = "error"
           /\ \A k \in EntriesOf(b) :
                /\ response.agentResults[k].status = "done"
                /\ response.agentResults[k].content = order[kb].reply.content

\* Witness of C1: the master revision answered after agent 1's call threw
\* and agent 2's returned a draft.
C1_Witness ==
  /\ Answered /\ variant = "master"
  /\ \E ka \in RepliesTo(1), kb \in RepliesTo(2) :
       /\ order[ka].reply.net
       /\ AdapterResult(2, order[kb].reply).error = ""
       /\ order[kb].reply.content.len > NoiseThreshold
       /\ ka < kb

SomeDraftHung == \E i \in DOMAIN draftCalls : draftCalls[i].st = "hung"

\* C2: every provider call is bounded by a timeout: when a provider never
\* answers a draft request, the request is not left pending forever: until it
\* is answered with the agents' results, a step of the handler (the timeout
\* that turns the hung call into an error result, the join, the response)
\* remains possible.
C2_HungCallTimesOut ==
  (SomeDraftHung /\ pc \notin {"responded", "killed"}) => ENABLED Progress

\* C3: whenever at least one draft has more than 100 characters, the merge
\* step returns a non-empty final document, whatever the master agent does.
C3_ValidDraftGivesDocument ==
  ( /\ Answered
    /\ \E k \in DOMAIN response.agentResults :
         /\ response.agentResults[k].status = "done"
         /\ response.agentResults[k].content.len > NoiseThreshold )
  => Truthy(response.doc)

PrimaryUnusable ==
  \/ ~req.apiKeys.mistral
  \/ /\ masterCalls.mistral.st = "settled"
     /\ \/ masterCalls.mistral.value.thrown
        \/ masterCalls.mistral.value.content.len <= NoiseThreshold

SecondaryCalled == Sent("master", "deepseek/deepseek-chat-v3-0324:free", FALSE) \in sent

\* C4: with two or more valid drafts and the secondary credential present,
\* the secondary master is called whenever the primary is unusable (its
\* credential is absent, its call throws, or it returns 100 characters or
\* fewer), and a usable secondary answer is the merged document.
C4_SecondaryAfterUnusablePrimary ==
  ( /\ Answered /\ variant = "master"
    /\ Len(ValidDrafts(SuccessfulDrafts(response.agentResults))) >= 2
    /\ req.apiKeys.openrouter
    /\ PrimaryUnusable )
  => /\ SecondaryCalled
     /\ masterCalls.openrouter.st = "settled"
     /\ ( /\ ~masterCalls.openrouter.value.thrown
          /\ masterCalls.openrouter.value.content.len > NoiseThreshold )
        => response.doc = masterCalls.openrouter.value.content

\* C5: every returned AgentResult is in one terminal status of done, error,
\* skipped, a settled result never changes, and done implies a non-empty
\* content.
C5_TerminalStatus ==
  /\ [](Answered =>
          \A k \in DOMAIN response.agentResults :
            /\ response.agentResults[k].status \in {"done", "error", "skipped"}
            /\ response.agentResults[k].status = "done"
                 => Truthy(response.agentResults[k].content))
  /\ [][\A i \in DOMAIN draftCalls :
          draftCalls[i].st = "settled" => draftCalls'[i] = draftCalls[i]]_vars

\* The agents the request configures: FIXED_AGENTS with the server's keys in
\* the master revision, agentConfigs in the twophase revision.
Configured ==
  IF variant = "master"
  THEN [i \in DOMAIN FIXED_AGENTS |->
          [id |-> FIXED_AGENTS[i].id, name |-> FIXED_AGENTS[i].name,
           usable |-> req.apiKeys[FIXED_AGENTS[i].provider]]]
  ELSE [i \in DOMAIN req.agentConfigs |->
          [id |-> req.agentConfigs[i].id, name |-> req.agentConfigs[i].name,
           usable |-> req.agentConfigs[i].enabled /\ req.agentConfigs[i].apiKey]]

\* C6: an agent that is disabled or has no credential is never sent a
\* provider request, and the returned agentResults hold one entry for it,
\* with status skipped.
C6_DisabledAgentSkipped ==
  \A i \in DOMAIN Configured :
    ~Configured[i].usable =>
      /\ \A m \in sent : m.to # Configured[i].id
      /\ Answered =>
           /\ Cardinality({ k \in DOMAIN response.agentResults :
                              response.agentResults[k].agentName = Configured[i].name }) = 1
           /\ \A k \in DOMAIN response.agentResults :
                response.agentResults[k].agentName = Configured[i].name
                  => response.agentResults[k].status = "skipped"

CredentialErrors ==
  { "Se necesita OPENROUTER_API_KEY", "No hay agentes activos con API key configurada" }

\* C7: a request that carries the fine and for which some agent has a usable
\* credential never gets a top-level error because another credential is
\* missing; the agents with a credential are all sent their draft request.
C7_MissingCredentialNotFatal ==
  ( /\ pc = "responded"
    /\ req.multaFile # NoFile
    /\ \E i \in DOMAIN Configured : Configured[i].usable )
  => /\ response.error \notin CredentialErrors
     /\ Answered =>
          \A i \in DOMAIN Configured :
            Configured[i].usable => \E m \in sent : m.phase = "draft" /\ m.to = Configured[i].id

\* C8: in the twophase revision no draft request is issued before every
\* metadata extraction call has settled, and the draft prompts are built from
\* the metadata merged from all of them.
C8_PhasesSequential ==
  ( /\ variant = "twophase"
    /\ \E m \in sent : m.phase = "draft" )
  => /\ Len(metaCalls) = Len(agents)
     /\ \A i \in DOMAIN metaCalls : metaCalls[i].st = "settled"
     /\ metadata = MetadataAtJoin(metaCalls)

\* Witness of C8: two agents draft with a metadata record that one of them
\* supplied while the other's extraction failed.
C8_Witness ==
  /\ variant = "twophase" /\ pc = "draft"
  /\ Len(agents) >= 2
  /\ \E m \in sent : m.phase = "draft"
  /\ metaCalls[1].value = Null
  /\ metaCalls[2].value # Null
  /\ Truthy(metadata.organism)

\* C9: whatever the completion order, every entry of agentResults carries the
\* identity of the configured agent whose call produced its content or error.
C9_ResultsAttributed ==
  Answered =>
    /\ Len(response.agentResults) = Len(agents)
    /\ \A k \in DOMAIN response.agentResults :
         LET e == response.agentResults[k]
         IN \E i \in DOMAIN agents :
              /\ e.agentName = agents[i].name
              /\ variant = "master" => e.agentId = agents[i].id
              /\ IF e.status = "skipped" THEN RepliesTo(i) = {}
                 ELSE \E j \in RepliesTo(i) :
                        /\ e.content = AdapterResult(i, order[j].reply).content
                        /\ e.error = AdapterResult(i, order[j].reply).error

\* Witness of C9: the last agent completed first and the agents' outcomes
\* differ.
C9_Witness ==
  /\ Answered
  /\ Len(order) >= 2
  /\ order[1].agent = Len(agents)
  /\ order[1].reply # Null
  /\ \E j \in DOMAIN order :
       /\ order[j].reply # Null
       /\ AdapterResult(order[j].agent, order[j].reply).error
            # AdapterResult(order[1].agent, order[1].reply).error

\* An extraction reply that fails: the call throws, or the reply holds no
\* JSON object (no braces at all, or braces around something unparseable).
FailedExtraction(r) ==
  \/ r.net \/ ~r.ok \/ ~r.json
  \/ \A n \in DOMAIN r.content : r.content[n].kind # "object"

\* C10: extractFineMetadata called with no agent, or with agents that all
\* fail, returns a record whose legislation is the empty list and whose
\* scalar fields are all the empty string, none of them undefined.
C10_AllFailGivesEmptyMetadata ==
  ( /\ pc = "extracted"
    /\ \A j \in DOMAIN order : FailedExtraction(order[j].reply) )
  => /\ metadata.legislation = << >>
     /\ \A f \in {"organism", "organismAddress", "fineType", "fineAmount",
                  "deadline", "rawSummary"} :
          metadata[f] = EmptyStr /\ metadata[f] # Undefined

\* Witness of C10: the call returned after every agent of a non-empty list
\* failed, one by throwing and one with an unparseable reply.
C10_Witness ==
  /\ pc = "extracted"
  /\ Len(order) >= 2
  /\ order[1].reply.net
  /\ ~order[2].reply.net /\ order[2].reply.ok /\ order[2].reply.json
  /\ order[2].reply.content = << TextSeg, GarbageSeg >>

\* Witness of C10, empty list: the call returned for an empty agent list.
C10_WitnessEmptyList ==
  pc = "extracted" /\ agents = << >> /\ metadata.legislation = << >>

\* A settled extraction call whose reply parsed to an object.
ParsedReply(i) == metaCalls[i].st = "settled" /\ metaCalls[i].value # Null

\* The object does not have the FineMetadata shape.
NonConformingReply(i) ==
  /\ ParsedReply(i)
  /\ metaCalls[i].value.legislationType # "array" \/ metaCalls[i].value.organismType # "string"

ConformingReply(i) == ParsedReply(i) /\ ~NonConformingReply(i)

\* The extraction calls with the non-conforming objects counted as no candidate.
ConformingOnly ==
  [i \in DOMAIN metaCalls |-> IF NonConformingReply(i) THEN Settled(Null) ELSE metaCalls[i]]

\* C11: when one agent's reply parses to an object that is not of the
\* FineMetadata shape and another agent's reply conforms, extractFineMetadata
\* completes and returns the consensus of the conforming candidates only.
C11_NonConformingIgnored ==
  ( /\ pc \in {"extracted", "threw"}
    /\ \E i \in DOMAIN metaCalls : NonConformingReply(i)
    /\ \E j \in DOMAIN metaCalls : ConformingReply(j) )
  => /\ pc = "extracted"
     /\ metadata = extractFineMetadata(ConformingOnly)

\* Agents whose candidate cites the entry of key k at least once.
AgentsMentioning(k) ==
  Cardinality({ i \in DOMAIN metaCalls :
                  /\ ParsedReply(i)
                  /\ \E n \in DOMAIN metaCalls[i].value.legislation :
                       metaCalls[i].value.legislation[n].key = k })

\* All non-blank entries of the candidates, in the candidates' order.
CitedEntries ==
  SelectSeq(Flatten([i \in DOMAIN ValidCandidates(metaCalls) |->
                       ValidCandidates(metaCalls)[i].legislation]),
            LAMBDA l : l.key # "")

\* C12: the merged legislation holds each cited key once, in the casing of its
\* first occurrence, and an entry cited by more agents precedes an entry cited
\* by fewer agents.
C12_LegislationByAgreement ==
  pc = "extracted" =>
    LET merged == metadata.legislation
    IN /\ { merged[p].key : p \in DOMAIN merged } = { CitedEntries[n].key : n \in DOMAIN CitedEntries }
       /\ \A p, q \in DOMAIN merged : merged[p].key = merged[q].key => p = q
       /\ \A p \in DOMAIN merged :
            \E n \in DOMAIN CitedEntries :
              /\ CitedEntries[n] = merged[p]
              /\ \A m \in 1..(n - 1) : CitedEntries[m].key # merged[p].key
       /\ \A p, q \in DOMAIN merged :
            AgentsMentioning(merged[p].key) > AgentsMentioning(merged[q].key) => p < q

\* The organism strings of the candidates, in the candidates' order.
Organisms == [i \in DOMAIN ValidCandidates(metaCalls) |-> ValidCandidates(metaCalls)[i].organism]

\* Position of the first occurrence of x in s.
FirstIndex(x, s) == CHOOSE i \in DOMAIN s : s[i] = x /\ \A j \in 1..(i - 1) : s[j] # x

\* x is the element of s with the largest count, the first seen among equals.
MajorityFirstSeen(x, s) ==
  /\ x \in Range(s)
  /\ \A y \in Range(s) :
       \/ Count(x, s) > Count(y, s)
       \/ Count(x, s) = Count(y, s) /\ FirstIndex(x, s) <= FirstIndex(y, s)

TrimmedOrganisms == SelectSeq([i \in DOMAIN Organisms |-> Trim(Organisms[i])], Truthy)

SingleValidDraft ==
  /\ call.fn \in {"mergeResponses", "callMasterAgent", "callMasterAgent7"}
  /\ call.returned
  /\ Len(ValidDrafts(call.args.drafts)) = 1

\* The document a merge function returned.
MergedContent == IF call.fn = "mergeResponses" THEN call.result ELSE call.result.content

\* C14: merging a list with exactly one draft longer than 100 characters
\* returns that draft's content unchanged, with either merge strategy and
\* without a provider call.
C14_SingleDraftUnchanged ==
  SingleValidDraft
  => /\ MergedContent = ValidDrafts(call.args.drafts)[1].content
     /\ call.fn # "mergeResponses" => call.result.awaits = "" /\ call.result.error = ""

\* mergeResponses has returned.
MergeReturned == call.fn = "mergeResponses" /\ call.returned

\* C15: for any list of drafts mergeResponses returns a text, and when no
\* draft is longer than 100 characters that text is the fixed message.
C15_MergeTotal ==
  MergeReturned
  => /\ call.result # Null
     /\ DOMAIN call.result = DOMAIN EmptyText
     /\ (\A i \in DOMAIN call.args.drafts : call.args.drafts[i].content.len <= NoiseThreshold)
          => call.result = MergeFailText

\* Witness of C15: two drafts, both of 100 characters or fewer, give the fixed
\* message.
C15_Witness ==
  /\ MergeReturned
  /\ Len(call.args.drafts) = 2
  /\ \A i \in DOMAIN call.args.drafts : call.args.drafts[i].content.len <= NoiseThreshold
  /\ \E i \in DOMAIN call.args.drafts : call.args.drafts[i].content.len > 0
  /\ call.result = MergeFailText

\* Witness of C15 for the empty list.
C15_WitnessEmptyList ==
  MergeReturned /\ call.args.drafts = << >> /\ call.result = MergeFailText

\* The valid drafts of the call, longest first (the first of equals first).
SortedDrafts ==
  LET valid == ValidDrafts(call.args.drafts)
      contents == [i \in DOMAIN valid |-> valid[i].content]
  IN SortDesc(contents, [c \in Range(contents) |-> c.len])

\* The paragraphs of the shorter drafts that survive the duplicate test.
SurvivingParas ==
  Flatten([i \in 1..(Len(SortedDrafts) - 1) |-> UniqueParas(SortedDrafts[i + 1], SortedDrafts[1])])

\* Paragraphs of the base headed by the petition word, with or without accent.
PetitionSections(base) ==
  { k \in DOMAIN base.paras : base.paras[k].keyword \in {"SUPLICA", "SÚPLICA"} }

\* mergeResponses has merged two or more valid drafts with a surviving
\* paragraph.
MergedWithAdditions ==
  /\ MergeReturned
  /\ Len(ValidDrafts(call.args.drafts)) >= 2
  /\ SurvivingParas # << >>

\* C16: with two or more valid drafts and a surviving paragraph, the result is
\* the longest draft with the surviving paragraphs right before its closing
\* petition section; they are appended after a separator only when the base
\* has no petition section.
C16_AdditionsBeforePetition ==
  MergedWithAdditions
  => LET base == SortedDrafts[1]
         sections == PetitionSections(base)
         k == CHOOSE s \in sections : \A j \in sections : j <= s
     IN IF sections = {}
          THEN call.result.paras = base.paras \o << SeparatorPara >> \o SurvivingParas
        ELSE call.result.paras =
               SubSeq(base.paras, 1, k - 1) \o SurvivingParas \o SubSeq(base.paras, k, Len(base.paras))

\* C17: when no draft is longer than 100 characters the analyze response
\* carries an error for the merge step and one agentResults entry for every
\* configured agent, in both revisions of the route.
C17_NoValidDraftReported ==
  ( /\ Answered
    /\ \A k \in DOMAIN response.agentResults :
         response.agentResults[k].content.len <= NoiseThreshold )
  => /\ response.docError # ""
     /\ \A i \in DOMAIN Configured :
          Cardinality({ k \in DOMAIN response.agentResults :
                          response.agentResults[k].agentName = Configured[i].name }) = 1

\* calcularPlazo has returned a PlazoInfo.
PlazoReturned == call.fn = "calcularPlazo" /\ call.returned /\ call.result # Null

\* The notice date of the call.
NoticeDate == call.args.parsedText.fecha.date

\* date plus one calendar month: the same day of the following month, or
\* that month's last day when it has no such day.
PlusOneMonth(date) ==
  LET y == IF date.month = 12 THEN date.year + 1 ELSE date.year
      m == IF date.month = 12 THEN 1 ELSE date.month + 1
  IN [year |-> y, month |-> m,
      day |-> IF date.day <= DaysInMonth(y, m) THEN date.day ELSE DaysInMonth(y, m)]

\* date plus n calendar days.
PlusDays(date, n) == CalendarDate(NewDate(date.year, date.month - 1, date.day) + n)

\* C18: a text with an allegation phrase gets the notice date plus 20 calendar
\* days and the allegation basis, any other text the notice date plus one
\* calendar month and the reposition basis; the due date is reported as such
\* in fechaLimite and in fechaLimiteISO.
C18_DueDateByProcedure ==
  PlazoReturned
  => LET due == IF call.args.parsedText.phrase \in AllegationPhrases
                THEN PlusDays(NoticeDate, 20) ELSE PlusOneMonth(NoticeDate)
     IN /\ call.result.fechaLimite = due
        /\ call.result.fechaLimiteISO = due
        /\ call.result.baseLegal =
             (IF call.args.parsedText.phrase \in AllegationPhrases
              THEN "Art. 89.1 TRLTSV (RDLeg. 6/2015)" ELSE "Art. 123.1 Ley 39/2015 (LPACAP)")

\* The local calendar day on which the call runs.
Today == LocalDay(call.args.tz, call.args.now)

\* The day count of a calendar date.
DayCount(date) == NewDate(date.year, date.month - 1, date.day)

\* C19: diasRestantes is the signed number of calendar days from today to the
\* due date, at any hour of the day and in any zone.
C19_DaysRemaining ==
  PlazoReturned => call.result.diasRestantes = DayCount(call.result.fechaLimite) - Today

\* Witness of C19: due 2025-02-10, run on 2025-02-05 late in the day, gives 5.
C19_Witness ==
  /\ PlazoReturned
  /\ call.result.fechaLimite = [year |-> 2025, month |-> 2, day |-> 10]
  /\ CalendarDate(Today) = [year |-> 2025, month |-> 2, day |-> 5]
  /\ call.args.now > Midnight(call.args.tz, Today)
  /\ call.result.diasRestantes = 5

\* Witnesses of C19: the due day itself gives 0, a later day a negative
\* number, and a due day across the change to summer time a whole number.
C19_WitnessDueToday == PlazoReturned /\ DayCount(call.result.fechaLimite) = Today /\ call.result.diasRestantes = 0

C19_WitnessExpired ==
  /\ PlazoReturned
  /\ call.result.fechaLimite = [year |-> 2025, month |-> 2, day |-> 10]
  /\ CalendarDate(Today) = [year |-> 2025, month |-> 3, day |-> 1]
  /\ call.result.diasRestantes = -19

C19_WitnessSummerTime ==
  /\ PlazoReturned
  /\ call.args.tz = "Europe/Madrid"
  /\ ~SummerTime(Today) /\ SummerTime(DayCount(call.result.fechaLimite))
  /\ call.result.diasRestantes > 0

\* C20: the urgency tier is determined by diasRestantes: negative is vencido,
\* 0 to 3 urgente, 4 to 7 aviso, more than 7 ok.
C20_UrgencyTiers ==
  PlazoReturned
  => LET d == call.result.diasRestantes
         u == call.result.urgencia
     IN /\ u \in {"vencido", "urgente", "aviso", "ok"}
        /\ (u = "vencido") <=> (d < 0)
        /\ (u = "urgente") <=> (0 <= d /\ d <= 3)
        /\ (u = "aviso") <=> (4 <= d /\ d <= 7)
        /\ (u = "ok") <=> (d > 7)

\* Witness of C20: four days left, the first day of the tier aviso.
C20_Witness == PlazoReturned /\ call.result.diasRestantes = 4 /\ call.result.urgencia = "aviso"

\* Witnesses of C20: the other ends of the tiers.
C20_WitnessEnds ==
  PlazoReturned /\ call.result.diasRestantes \in {-1, 0, 3, 7, 8}

\* C21: calcularPlazo returns null when the text has no notification-date
\* line, when the value of the line is "No indicado" or empty, or when the
\* value matches none of the three date patterns.
C21_NullWithoutDate ==
  (call.fn = "calcularPlazo" /\ call.returned
     /\ call.args.parsedText.fecha.kind \in {"absent", "No indicado", "empty", "other"})
  => call.result = Null

\* The part of C21 the code keeps: no line, "No indicado", an empty value
\* at the end of the text or before a line without a date, and a value that
\* is no date give null.
C21_NullWithoutCapturedDate ==
  (call.fn = "calcularPlazo" /\ call.returned /\ RawFecha(call.args.parsedText.fecha).kind # "date")
  => call.result = Null

\* An empty value above a line with a date: the deadline of that date.
C21_EmptyValueGetsDeadline ==
  /\ call.fn = "calcularPlazo" /\ call.returned
  /\ call.args.parsedText.fecha.kind = "empty"
  /\ call.result # Null

\* C30: for a reposition notice the due date lies in the calendar month
\* after the notice month, on the same day of the month or on that month's
\* last day when it has no such day.
C30_RepositionInFollowingMonth ==
  (PlazoReturned /\ call.args.parsedText.fecha.kind = "date"
     /\ call.args.parsedText.phrase \notin AllegationPhrases)
  => /\ call.result.fechaLimite.month = (NoticeDate.month % 12) + 1
     /\ call.result.fechaLimite = PlusOneMonth(NoticeDate)

\* The part of C30 the code keeps: notice days that exist in the following
\* month.
C30_RepositionShortDays ==
  (PlazoReturned /\ call.args.parsedText.fecha.kind = "date"
     /\ call.args.parsedText.phrase \notin AllegationPhrases
     /\ NoticeDate.day <= DaysInMonth(PlusOneMonth(NoticeDate).year, PlusOneMonth(NoticeDate).month))
  => call.result.fechaLimite = PlusOneMonth(NoticeDate)

\* A reposition notice of 31 January 2025 is due on 3 March 2025.
C30_RollsOver ==
  /\ PlazoReturned
  /\ call.args.parsedText.phrase \notin AllegationPhrases
  /\ NoticeDate = [year |-> 2025, month |-> 1, day |-> 31]
  /\ call.result.fechaLimite = [year |-> 2025, month |-> 3, day |-> 3]

\* extractAndStripUrl has returned.
StripReturned == call.fn = "extractAndStripUrl" /\ call.returned

\* C22: after extractAndStripUrl the content holds no |||URL_SEDE:...|||
\* token: a well-formed sidecar is removed and its proposal returned, a
\* malformed one is removed without a proposal, and a text without sidecar
\* comes back trimmed.
C22_SidecarStripped ==
  StripReturned
  => LET raw == call.args.raw
     IN /\ call.result.content = Text(raw.paras, FALSE, << >>)
        /\ (call.result.urlProposal # Null) <=> (\E k \in DOMAIN raw.markers : raw.markers[k] = "json")

\* The part of C22 the code keeps: a text with no token or with one token
\* whose payload is in braces.
C22_SingleBracedSidecar ==
  (StripReturned /\ Len(call.args.raw.markers) <= 1 /\ "nobrace" \notin Range(call.args.raw.markers))
  => LET raw == call.args.raw
     IN /\ call.result.content = Text(raw.paras, FALSE, << >>)
        /\ (call.result.urlProposal # Null) <=> (raw.markers = << "json" >>)

\* A sidecar whose payload is not in braces stays in the content.
C22_TokenLeft ==
  /\ StripReturned
  /\ call.args.raw.markers = << "nobrace" >>
  /\ call.result.content.markers = << "nobrace" >>

\* A 2xx reply with a JSON body that carries an error field, or whose content
\* is empty or only whitespace.
SoftFailure(r) ==
  ~r.net /\ r.ok /\ r.json /\ (r.bodyError \/ ~Truthy(r.content) \/ r.content.blank)

\* C23: a 2xx reply whose body carries an error field, or whose content is
\* empty or only whitespace, makes the adapter call fail: callAgent returns an
\* error for it and the agent's entry has status error.
C23_SoftFailureIsError ==
  Answered =>
    \A i \in DOMAIN agents : \A k \in RepliesTo(i) :
      SoftFailure(order[k].reply)
      => /\ AdapterResult(i, order[k].reply).error # ""
         /\ \A e \in EntriesOf(i) : response.agentResults[e].status = "error"

\* The part of C23 the code keeps: the OpenRouter adapter of lib/llm.ts.
C23_OpenRouterSoftFailure ==
  (Answered /\ variant = "master") =>
    \A i \in DOMAIN agents : \A k \in RepliesTo(i) :
      (SoftFailure(order[k].reply) /\ agents[i].provider = "openrouter")
      => /\ AdapterResult(i, order[k].reply).error # ""
         /\ \A e \in EntriesOf(i) : response.agentResults[e].status = "error"

\* The Mistral adapter of lib/llm.ts returns the content of a 2xx reply whose
\* body carries an error field, and the agent's entry is done.
C23_MistralErrorBodyDone ==
  /\ Answered /\ variant = "master"
  /\ \E i \in DOMAIN agents : \E k \in RepliesTo(i) :
       /\ agents[i].provider = "mistral"
       /\ order[k].reply.ok /\ order[k].reply.bodyError
       /\ \E e \in EntriesOf(i) : response.agentResults[e].status = "done"

\* The Mistral adapter of lib/llm.ts returns a whitespace-only content, and
\* the agent's entry is done.
C23_MistralBlankDone ==
  /\ Answered /\ variant = "master"
  /\ \E i \in DOMAIN agents : \E k \in RepliesTo(i) :
       /\ agents[i].provider = "mistral"
       /\ order[k].reply.ok /\ order[k].reply.content.blank
       /\ \E e \in EntriesOf(i) : response.agentResults[e].status = "done"

\* C24: one callAgent invocation sends at most one HTTP request: after a
\* failed request it returns the failure and asks no model again.
C24_AtMostOneRequest == call.fn = "callAgent" => Len(call.requests) <= 1

\* The part of C24 the code keeps: the Mistral agent, and an agent without
\* key.
C24_MistralAtMostOneRequest ==
  (call.fn = "callAgent" /\ ~UsesPool(call)) => Len(call.requests) <= 1

\* callAgent of agent-openrouter-1 has asked all seven models of the pool and
\* returned an error.
C24_SevenRequests ==
  /\ call.fn = "callAgent" /\ call.returned
  /\ Len(call.requests) = Len(FREE_MODELS_POOL)
  /\ call.result.error # ""

\* The failures after which the pool is to go on to the next model: HTTP 404
\* or 429, or a content of 50 characters or fewer.
Retryable(r) ==
  ~r.net /\ (r.status \in {404, 429} \/ (r.status = 200 /\ r.json /\ r.content.len <= 50))

\* The reply of the k-th request.
ReplyOf(k) == call.requests[k].reply

\* C26: callOpenRouterWithFallback asks the models of the pool in list order
\* from startIndex, goes on to the next model only after a retryable failure
\* (HTTP 404 or 429, or a content of 50 characters or fewer), returns the
\* first content of more than 50 characters, stops with the error of any
\* other failure, and when every model failed retryably ends with the error
\* "all models unavailable" after one request per model.
C26_PoolInOrder ==
  UsesPool(call) =>
    /\ \A k \in DOMAIN call.requests :
         /\ call.requests[k].model = FREE_MODELS_POOL[StartIndex(call) + k]
         /\ k < Len(call.requests) => Retryable(ReplyOf(k))
    /\ (call.returned /\ call.fn = "callOpenRouterWithFallback") =>
         LET n == Len(call.requests)
         IN IF Retryable(ReplyOf(n))
              THEN call.result = PoolExhausted /\ StartIndex(call) + n = Len(FREE_MODELS_POOL)
            ELSE IF ~ReplyOf(n).net /\ ReplyOf(n).status = 200 /\ ReplyOf(n).json
              THEN /\ call.result.kind = "return"
                   /\ call.result.content = ReplyOf(n).content
                   /\ call.result.modelUsed = call.requests[n].model
            ELSE call.result.kind = "throw" /\ call.result # PoolExhausted

\* The part of C26 the code keeps: runs in which no error body holds the
\* digits "404" or "429".
C26_PoolInOrderPlainErrors ==
  (\A k \in DOMAIN call.requests : ReplyOf(k).status \in {404, 429, 200} \/ ~ReplyOf(k).mentions)
  => C26_PoolInOrder

\* The pool went on to the second model after an HTTP 502 of the first.
C26_GoesOnAfter502 ==
  /\ call.fn = "callOpenRouterWithFallback"
  /\ Len(call.requests) >= 2
  /\ ReplyOf(1).status = 502

\* The uploaded fine is a PDF without a text layer, or one pdf-parse cannot
\* read.
ScannedPdf == req.multaFile.mime = "pdf" /\ (req.multaFile.corrupt \/ req.multaFile.textLen = 0)

\* C25: for a PDF without usable text layer the raw file goes out as an
\* image: once the request has made provider calls, they carry the image
\* payload.
C25_ScannedPdfSentAsImage ==
  (ScannedPdf /\ sent # {}) => \E s \in sent : s.image

\* The part of C25 the code keeps: parseDocument of the master revision
\* sends the file itself to the parse model.
C25_ParseDocumentSendsImage ==
  (variant = "master" /\ ScannedPdf /\ sent # {}) => \E s \in sent : s.image

\* The twophase revision has answered a request for a scanned PDF, and every
\* provider call it made went out without the file.
C25_PlaceholderOnly ==
  /\ variant = "twophase" /\ Answered /\ ScannedPdf
  /\ parsedText = "scanned placeholder"
  /\ \E s \in sent : s.phase = "draft"
  /\ \A s \in sent : ~s.image

\* The reply is a 2xx JSON body, whose content the adapter returns.
UsableReply(r) == ~r.net /\ r.ok /\ r.json

\* The first {...} span of a raw reply, fenced or not.
FirstBrace(raw) == SelectSeq(raw, IsBrace)[1]

\* The raw reply holds a JSON object as its first {...} span.
HoldsObject(raw) == SelectSeq(raw, IsBrace) # << >> /\ FirstBrace(raw).kind = "object"

\* C27: whenever the raw reply of an agent holds a JSON object, in code
\* fences or not, followed by free text or not, extractWithOneAgent yields
\* that object as the agent's candidate.
C27_ObjectYieldsCandidate ==
  \A k \in DOMAIN order :
    (UsableReply(order[k].reply) /\ HoldsObject(order[k].reply.content))
    => metaCalls[order[k].agent] = Settled(FirstBrace(order[k].reply.content).cand)

\* The part of C27 the code keeps: an object outside code fences that is the
\* only {...} span of the reply, followed by free text or not.
C27_BareObjectYieldsCandidate ==
  \A k \in DOMAIN order :
    ( /\ UsableReply(order[k].reply) /\ HoldsObject(order[k].reply.content)
      /\ \A j \in DOMAIN order[k].reply.content : order[k].reply.content[j].fence = "none"
      /\ Len(SelectSeq(order[k].reply.content, IsBrace)) = 1 )
    => metaCalls[order[k].agent] = Settled(FirstBrace(order[k].reply.content).cand)

\* A reply that is one JSON object inside ```json fences gives no candidate.
C27_FencedObjectLost ==
  \E k \in DOMAIN order :
    /\ UsableReply(order[k].reply)
    /\ Len(order[k].reply.content) = 1
    /\ order[k].reply.content[1].fence = "json"
    /\ order[k].reply.content[1].kind = "object"
    /\ metaCalls[order[k].agent] = Settled(Null)

\* An object followed by free text that holds a brace gives no candidate.
C27_TrailingBraceLost ==
  \E k \in DOMAIN order :
    /\ UsableReply(order[k].reply)
    /\ Len(order[k].reply.content) = 2
    /\ order[k].reply.content[1] = ObjSeg(order[k].reply.content[1].cand)
    /\ order[k].reply.content[2] = GarbageSeg
    /\ metaCalls[order[k].agent] = Settled(Null)

\* The text of which `pieces` are consecutive pieces: a paragraph cut in two
\* by an insertion is put together again.
RECURSIVE Glue(_)
Glue(pieces) ==
  IF Len(pieces) < 2 THEN pieces
  ELSE IF pieces[1].part = "head" /\ pieces[2].part = "tail"
    THEN << [pieces[1] EXCEPT !.part = "whole", !.len = pieces[1].len + pieces[2].len] >>
           \o Glue(SubSeq(pieces, 3, Len(pieces)))
  ELSE << pieces[1] >> \o Glue(Tail(pieces))

\* The valid drafts of the call, in the order given.
Qualifying == ValidDrafts(call.args.drafts)

\* out is the text of draft b of the qualifying drafts with one block
\* inserted: taking the block out gives that text again, and the block is made
\* of paragraphs of more than 100 characters of the other qualifying drafts,
\* after the separator line when the block stands at the end.
BaseWithInsertedBlock(out, b) ==
  /\ out.pad = Qualifying[b].content.pad
  /\ out.markers = Qualifying[b].content.markers
  /\ \E i \in 0..Len(out.paras) : \E n \in 0..(Len(out.paras) - i) :
       LET block == SubSeq(out.paras, i + 1, i + n)
           rest == SubSeq(out.paras, 1, i) \o SubSeq(out.paras, i + n + 1, Len(out.paras))
       IN /\ Glue(rest) = Qualifying[b].content.paras
          /\ \A k \in DOMAIN block :
               \/ block[k] = SeparatorPara /\ k = 1 /\ i + n = Len(out.paras)
               \/ /\ block[k].len > NoiseThreshold
                  /\ block[k].part = "whole"
                  /\ \E j \in DOMAIN Qualifying \ {b} :
                       block[k] \in Range(Qualifying[j].content.paras)

\* C28: with two or more qualifying drafts the output of mergeResponses is
\* the longest qualifying draft, whole and in its order, with one block
\* inserted; every paragraph of the block has more than 100 characters and
\* comes from another qualifying draft.
C28_BaseKeptWhole ==
  (MergeReturned /\ Len(Qualifying) >= 2)
  => \E b \in DOMAIN Qualifying :
       /\ \A j \in DOMAIN Qualifying : Qualifying[j].content.len <= Qualifying[b].content.len
       /\ BaseWithInsertedBlock(call.result, b)

\* Witness of C28: the base holds a petition section and the other draft a
\* new paragraph next to a short one and to one the base has: the new one
\* alone is inserted, before the petition.
C28_Witness ==
  /\ MergeReturned /\ Len(Qualifying) >= 2
  /\ Len(call.result.paras) = Len(SortedDrafts[1].paras) + 1
  /\ \E j \in DOMAIN Qualifying :
       /\ Qualifying[j].content # SortedDrafts[1]
       /\ \E k \in DOMAIN Qualifying[j].content.paras :
            Qualifying[j].content.paras[k].len <= NoiseThreshold
  /\ PetitionSections(SortedDrafts[1]) # {}
  /\ call.result.paras[Len(call.result.paras)] = SortedDrafts[1].paras[Len(SortedDrafts[1].paras)]

\* Witness of C28: the insertion cuts a paragraph of the base in two.
C28_WitnessCut ==
  /\ MergeReturned /\ Len(Qualifying) >= 2
  /\ \E k \in DOMAIN call.result.paras : call.result.paras[k].part = "head"

\* The positions of paragraph p in the returned text.
CopiesOf(p) == { k \in DOMAIN call.result.paras : call.result.paras[k] = p }

\* The paragraphs of the drafts other than the base that the base does not
\* hold.
NewParas ==
  { p \in UNION { Range(SortedDrafts[i].paras) : i \in 2..Len(SortedDrafts) } :
      p \notin Range(SortedDrafts[1].paras) }

\* C29: with three or more qualifying drafts a paragraph that the base does
\* not hold is added at most once, also when two of the other drafts hold it.
C29_AddedOnce ==
  (MergeReturned /\ Len(Qualifying) >= 3)
  => \A p \in NewParas : Cardinality(CopiesOf(p)) <= 1

\* The part of C29 the code keeps: paragraphs that one of the other drafts
\* alone holds.
C29_AddedOnceWhenInOneDraft ==
  (MergeReturned /\ Len(Qualifying) >= 3)
  => \A p \in NewParas :
       Cardinality({ i \in 2..Len(SortedDrafts) : p \in Range(SortedDrafts[i].paras) }) = 1
       => Cardinality(CopiesOf(p)) <= 1

\* Two of three qualifying drafts hold a paragraph the base does not, and the
\* merged text holds it twice.
C29_AddedTwice ==
  /\ MergeReturned /\ Len(Qualifying) = 3
  /\ \E p \in NewParas : Cardinality(CopiesOf(p)) = 2

====
